---- MODULE Spec2Model ----
(***************************************************************************)
(* A model of lib/sqlalchemy/sql/crud.py: _get_crud_params and the         *)
(* functions it calls, which decide, per column of an INSERT or UPDATE,    *)
(* the (column, column text, value) triples of the statement and the       *)
(* compiler's retrieval collections (postfetch, insert_prefetch,           *)
(* update_prefetch, implicit_returning, postfetch_lastrowid).              *)
(*                                                                         *)
(* Encoding.  A parameter key (str, or a (table name, key) tuple in a      *)
(* multi-table UPDATE) is the pair <<qualifier, key>>, the qualifier ""    *)
(* for a bare key; the key None of a non-column left-hand side is <<>>.    *)
(* A dict is a function; a dict whose item order is read is a sequence of  *)
(* <<key, value>> pairs.  A rendered bind parameter is a record carrying   *)
(* the name it is rendered under.  A raised exception is the field         *)
(* "error" of the scan state: every later step is skipped and the          *)
(* compiler's collections keep what was appended before the raise.         *)
(***************************************************************************)
EXTENDS Integers, Sequences, FiniteSets, TLC

\* Sequencing of statements: the step Step(_) applied to the value the
\* step before it has produced.  The value is computed once, before the
\* next step reads it.
Then(value, Step(_)) == CHOOSE r \in {Step(v) : v \in {value}} : TRUE

(* ------------------------------------------------------------------ *)
(* Bounds of the model                                                 *)
(* ------------------------------------------------------------------ *)

\* the largest number of rows of a batched INSERT (Insert.values([...]))
MaxRows == 2

(* ------------------------------------------------------------------ *)
(* The schema model: defaults, columns, tables                         *)
(* ------------------------------------------------------------------ *)

\* c.default / c.onupdate is None
NoDefault == [kind |-> "None", optional |-> FALSE]
\* a schema.Sequence (default.is_sequence), with its "optional" flag
SequenceDefault(optional) == [kind |-> "Sequence", optional |-> optional]
\* a ColumnDefault holding a SQL expression (default.is_clause_element)
ClauseDefault == [kind |-> "ClauseElement", optional |-> FALSE]
\* a ColumnDefault holding a Python scalar or callable
CallableDefault == [kind |-> "Callable", optional |-> FALSE]

DefaultKinds ==
    {NoDefault, SequenceDefault(FALSE), SequenceDefault(TRUE),
     ClauseDefault, CallableDefault}

Column(key, table, primary_key, nullable, default, server_default, onupdate, server_onupdate) ==
    [key |-> key, table |-> table, primary_key |-> primary_key,
     nullable |-> nullable, default |-> default,
     server_default |-> server_default, onupdate |-> onupdate,
     server_onupdate |-> server_onupdate]

\* autoincrement is the key of table._autoincrement_column, "" when None
Table(name, columns, autoincrement, implicit_returning) ==
    [name |-> name, columns |-> columns, autoincrement |-> autoincrement,
     implicit_returning |-> implicit_returning]

\* The identity of a Column object, as the collections and triples hold it.
ColRef(c) ==
    [table |-> c.table, key |-> c.key, original |-> c.key, index |-> -1]

\* _multiparam_column(original, index): a wrapper whose key is
\* "<original.key>_m<index + 1>"; it is equal only to another wrapper.
_multiparam_column(original, index) ==
    [table |-> original.table,
     key |-> original.key \o "_m" \o ToString(index + 1),
     original |-> original.key, index |-> index]

is_autoincrement_column(table, c) ==
    table.autoincrement # "" /\ c.table = table.name
                             /\ c.key = table.autoincrement

RECURSIVE SeqToSet(_)
SeqToSet(s) == IF s = <<>> THEN {} ELSE {Head(s)} \cup SeqToSet(Tail(s))

\* set(table.c)
TableCols(table) == {ColRef(table.columns[i]) : i \in DOMAIN table.columns}

\* key in table.c
HasKey(table, key) == \E i \in DOMAIN table.columns : table.columns[i].key = key

\* table.c[key]
ColumnOf(table, key) ==
    table.columns[CHOOSE i \in DOMAIN table.columns : table.columns[i].key = key]

(* ------------------------------------------------------------------ *)
(* Declared values and rendered values                                 *)
(* ------------------------------------------------------------------ *)

\* a plain Python value given to values()
Literal(v) == [kind |-> "literal", v |-> v, anon |-> FALSE]
\* the REQUIRED symbol
REQUIRED == [kind |-> "REQUIRED", v |-> "REQUIRED", anon |-> FALSE]
\* a BindParameter handle; anon: unique, with a _truncated_label key
BindHandle(key, anon) == [kind |-> "bindparam", v |-> key, anon |-> anon]
\* any other SQL expression
SqlExpr(v) == [kind |-> "clause", v |-> v, anon |-> FALSE]
\* the argument None of a prefetch bind parameter
PyNone == [kind |-> "literal", v |-> "None", anon |-> FALSE]

\* coercions._is_literal
_is_literal(value) == value.kind \in {"literal", "REQUIRED"}

\* a key of a values() collection: a str (table ""), a Column of a table,
\* or a non-column expression (iscol FALSE)
DKey(table, key) == [table |-> table, key |-> key, iscol |-> TRUE]
ExprKey(text) == [table |-> "", key |-> text, iscol |-> FALSE]

\* The text of a bind parameter as the compiler renders it: the name is
\* what later stages look the value up by.
Rendered(kind, name, value, required, origin) ==
    [kind |-> kind, name |-> name, value |-> value,
     required |-> required, origin |-> origin]

\* compiler.process(<expression>): the expression printed inline
SqlText(what) == Rendered("sql", what, "", FALSE, "sql")

\* the value None of a triple
NoValue == Rendered("None", "", "", FALSE, "none")

\* compiler.preparer.format_column(c, use_table=...)
format_column(c, use_table) ==
    IF use_table THEN c.table \o "." \o c.key ELSE c.key

Triple(col, text, value) == [col |-> col, text |-> text, value |-> value]

(* ------------------------------------------------------------------ *)
(* The inputs of one call: compiler, stmt, compile_state, toplevel, kw *)
(* ------------------------------------------------------------------ *)

\* compiler.dialect
Dialect(supports_sequences, sequences_optional, implicit_returning, postfetch_lastrowid, preexecute_autoincrement_sequences, insert_executemany_returning, supports_default_metavalue) ==
    [supports_sequences |-> supports_sequences,
     sequences_optional |-> sequences_optional,
     implicit_returning |-> implicit_returning,
     postfetch_lastrowid |-> postfetch_lastrowid,
     preexecute_autoincrement_sequences |-> preexecute_autoincrement_sequences,
     insert_executemany_returning |-> insert_executemany_returning,
     supports_default_metavalue |-> supports_default_metavalue]

\* compiler.column_keys: None, or a list of str keys
NoColumnKeys == [none |-> TRUE, keys |-> <<>>]
ColumnKeys(keys) == [none |-> FALSE, keys |-> keys]

\* The statement as its compile_state presents it.  _dict_parameters,
\* _ordered_values and each row of _multi_parameters are sequences of
\* <<DKey, value>> pairs in item order; None and empty are both <<>>.
\* An Insert has no _extra_froms, _ordered_values or _parameter_ordering;
\* an Update has no _multi_parameters or _select_names.
Statement ==
    [isinsert |-> TRUE, table |-> Table("t", <<>>, "", TRUE),
     _inline |-> FALSE, _returning |-> FALSE,
     _return_defaults |-> FALSE, _return_defaults_columns |-> {},
     _no_parameters |-> TRUE, _has_multi_parameters |-> FALSE,
     _multi_parameters |-> <<>>, _ordered_values |-> <<>>,
     _dict_parameters |-> <<>>, _parameter_ordering |-> <<>>,
     _select_names |-> <<>>, include_insert_from_select_defaults |-> FALSE,
     _extra_froms |-> <<>>, include_table_with_column_exprs |-> FALSE,
     toplevel |-> TRUE, visiting_cte |-> FALSE, hash_order |-> "forward",
     column_keys |-> NoColumnKeys, for_executemany |-> FALSE,
     dialect |-> Dialect(FALSE, FALSE, FALSE, FALSE, FALSE, FALSE, FALSE)]

\* dml.isupdate(compile_state); a statement here is an Insert or an Update
isupdate(inp) == ~inp.isinsert

\* compile_state.is_multitable: the statement has extra FROM tables
is_multitable(inp) == inp._extra_froms # <<>>

ExtraTableNames(inp) ==
    {inp._extra_froms[i].name : i \in DOMAIN inp._extra_froms}

\* the branch of _key_getters_for_crud_column that qualifies keys
Qualifies(inp) == isupdate(inp) /\ inp._extra_froms # <<>>

NoneKey == <<>>

\* _column_as_key(key) for a key of a values() collection
_column_as_key(inp, k) ==
    IF ~k.iscol THEN NoneKey
    ELSE IF Qualifies(inp) /\ k.table \in ExtraTableNames(inp)
         THEN <<k.table, k.key>>
         ELSE <<"", k.key>>

\* _getattr_col_key(col)
_getattr_col_key(inp, c) ==
    IF Qualifies(inp) /\ c.table \in ExtraTableNames(inp)
    THEN <<c.table, c.key>>
    ELSE <<"", c.key>>

\* _col_bind_name(col)
_col_bind_name(inp, c) ==
    IF Qualifies(inp) /\ c.table \in ExtraTableNames(inp)
    THEN c.table \o "_" \o c.key
    ELSE c.key

(* ------------------------------------------------------------------ *)
(* Bind parameters                                                     *)
(* ------------------------------------------------------------------ *)

\* _create_bind_param(compiler, col, value, required=..., name=...);
\* name "" is name=None.  col is a Column or a _multiparam_column.
_create_bind_param(col, value, required, name) ==
    Rendered("bindparam", IF name = "" THEN col.key ELSE name,
             value.v, required, "crud")

\* _handle_values_anonymous_param(compiler, col, value, name, **kw)
_handle_values_anonymous_param(inp, col, value, name) ==
    IF ~inp.visiting_cte /\ value.anon
    THEN Rendered("bindparam", name, value.v, FALSE, "renamed")
    ELSE Rendered("bindparam", value.v, value.v, FALSE, "caller")

(* ------------------------------------------------------------------ *)
(* _get_returning_modifiers                                            *)
(* ------------------------------------------------------------------ *)

\* Mutation of need_pks_of: without the test for multi-row values
need_pks_of_also_for_multi_parameters(inp) ==
    /\ inp.toplevel
    /\ inp.isinsert
    /\ ~inp._inline
    /\ (~inp.for_executemany
        \/ (inp.dialect.insert_executemany_returning /\ inp._return_defaults))
    /\ ~inp._returning

need_pks_of(inp) ==
    /\ inp.toplevel
    /\ inp.isinsert
    /\ ~inp._inline
    /\ (~inp.for_executemany
        \/ (inp.dialect.insert_executemany_returning /\ inp._return_defaults))
    /\ ~inp._returning
    /\ ~inp._has_multi_parameters

implicit_returning_of(inp) ==
    /\ need_pks_of(inp)
    /\ inp.dialect.implicit_returning
    /\ inp.table.implicit_returning

\* Mutation of implicit_return_defaults_of: without the step that turns
\* "no columns named" into set(stmt.table.c)
implicit_return_defaults_of_named_columns(inp) ==
    IF /\ inp.dialect.implicit_returning
       /\ inp.table.implicit_returning
       /\ inp._return_defaults
       /\ (inp.isinsert => need_pks_of(inp))
    THEN inp._return_defaults_columns
    ELSE {}

\* implicit_return_defaults: False is the empty set (both are falsy)
implicit_return_defaults_of(inp) ==
    LET wanted ==
            IF inp.isinsert
            THEN implicit_returning_of(inp) /\ inp._return_defaults
            ELSE /\ inp.dialect.implicit_returning
                 /\ inp.table.implicit_returning
                 /\ inp._return_defaults
    IN  IF wanted
        THEN IF inp._return_defaults_columns = {}
             THEN TableCols(inp.table)
             ELSE inp._return_defaults_columns
        ELSE {}

_get_returning_modifiers(inp) ==
    [need_pks |-> need_pks_of(inp),
     implicit_returning |-> implicit_returning_of(inp),
     implicit_return_defaults |-> implicit_return_defaults_of(inp),
     postfetch_lastrowid |->
         need_pks_of(inp) /\ inp.dialect.postfetch_lastrowid]

(* ------------------------------------------------------------------ *)
(* The state one call threads through its steps                        *)
(* ------------------------------------------------------------------ *)

\* the dict {}
EmptyDict == [k \in {} |-> REQUIRED]

\* parameters: the dict "parameters"; values: the list "values";
\* postfetch .. postfetch_lastrowid: the compiler's attributes;
\* warnings: the columns util.warn was called for; check_columns: the
\* keys of the dict check_columns; add_select_cols: the list of
\* _scan_insert_from_select_cols; error: the exception raised, "" if none.
ScanState(parameters, postfetch_lastrowid) ==
    [parameters |-> parameters, values |-> <<>>, postfetch |-> <<>>,
     insert_prefetch |-> <<>>, update_prefetch |-> <<>>,
     implicit_returning |-> <<>>,
     postfetch_lastrowid |-> postfetch_lastrowid,
     warnings |-> <<>>, check_columns |-> {}, add_select_cols |-> <<>>,
     error |-> ""]

\* dict.setdefault(key, value)
setdefault(d, key, value) ==
    IF key \in DOMAIN d THEN d
    ELSE [k \in DOMAIN d \cup {key} |-> IF k = key THEN value ELSE d[k]]

\* dict.pop(key): the dict without the key
pop(d, key) == [k \in DOMAIN d \ {key} |-> d[k]]

\* values.append((c, col_text, value))
append_value(st, c, text, value) ==
    [st EXCEPT !.values = Append(@, Triple(ColRef(c), text, value))]

append_postfetch(st, c) == [st EXCEPT !.postfetch = Append(@, ColRef(c))]

append_implicit_returning(st, c) ==
    [st EXCEPT !.implicit_returning = Append(@, ColRef(c))]

\* _warn_pk_with_no_anticipated_value(c)
_warn_pk_with_no_anticipated_value(st, c) ==
    [st EXCEPT !.warnings = Append(@, ColRef(c))]

\* "implicit_return_defaults and c in implicit_return_defaults"
in_return_defaults(mods, c) == ColRef(c) \in mods.implicit_return_defaults

\* "dialect.supports_sequences and (not default.optional or not
\* dialect.sequences_optional)"
sequence_is_invoked(inp, default) ==
    /\ inp.dialect.supports_sequences
    /\ (~default.optional \/ ~inp.dialect.sequences_optional)

\* compiler.process(c.default) of a Sequence
sequence_text(c) == SqlText("nextval(" \o c.key \o "_seq)")
\* compiler.process(c.default.arg.self_group())
default_arg_text(c) == SqlText("(default_of_" \o c.key \o ")")
\* compiler.process(c.onupdate.arg.self_group())
onupdate_arg_text(c) == SqlText("(onupdate_of_" \o c.key \o ")")
\* compiler.process(value.self_group())
expression_text(value) == SqlText("(" \o value.v \o ")")

\* _create_insert_prefetch_bind_param(compiler, c, name=...): the state
\* with c appended to compiler.insert_prefetch; the parameter is
\* prefetch_param(c, name).  c is a ColRef or a _multiparam_column.
prefetch_param(col, name) == _create_bind_param(col, PyNone, FALSE, name)

_create_insert_prefetch_bind_param(st, col) ==
    [st EXCEPT !.insert_prefetch = Append(@, col)]

\* Mutation of _create_update_prefetch_bind_param: the column is recorded
\* in insert_prefetch
_create_update_prefetch_bind_param_as_insert(st, col) ==
    [st EXCEPT !.insert_prefetch = Append(@, col)]

\* _create_update_prefetch_bind_param(compiler, c, name=...)
_create_update_prefetch_bind_param(st, col) ==
    [st EXCEPT !.update_prefetch = Append(@, col)]

\* values.append((c, format_column(c), <insert prefetch bind param>))
append_insert_prefetch(st, c) ==
    append_value(_create_insert_prefetch_bind_param(st, ColRef(c)), c,
                 format_column(c, FALSE), prefetch_param(c, ""))

(* ------------------------------------------------------------------ *)
(* The per-column decisions                                            *)
(* ------------------------------------------------------------------ *)

\* the name the bind parameter of a declared value is given:
\* _col_bind_name(c), or "%s_m0" % _col_bind_name(c) in a batch
declared_bind_name(inp, c) ==
    IF ~inp._has_multi_parameters
    THEN _col_bind_name(inp, c)
    ELSE _col_bind_name(inp, c) \o "_m0"

\* the routing of a declared SQL expression in _append_param_parameter
route_declared_expression(st, inp, c, mods) ==
    IF isupdate(inp)
    THEN IF in_return_defaults(mods, c)
         THEN append_implicit_returning(st, c)
         ELSE append_postfetch(st, c)
    ELSE IF c.primary_key
         THEN IF mods.implicit_returning
              THEN append_implicit_returning(st, c)
              ELSE IF inp.dialect.postfetch_lastrowid
                   THEN [st EXCEPT !.postfetch_lastrowid = TRUE]
                   ELSE st
         ELSE IF in_return_defaults(mods, c)
              THEN append_implicit_returning(st, c)
              ELSE append_postfetch(st, c)

\* _append_param_parameter
_append_param_parameter(st, inp, c, col_key, mods) ==
    LET value == st.parameters[col_key]
        st1 == [st EXCEPT !.parameters = pop(@, col_key)]
        col_value == format_column(c, inp.include_table_with_column_exprs)
    IN  IF _is_literal(value)
        THEN append_value(st1, c, col_value,
                 _create_bind_param(c, value, value = REQUIRED,
                                    declared_bind_name(inp, c)))
        ELSE IF value.kind = "bindparam"
        THEN append_value(st1, c, col_value,
                 _handle_values_anonymous_param(inp, c, value,
                                    declared_bind_name(inp, c)))
        ELSE append_value(route_declared_expression(st1, inp, c, mods),
                          c, col_value, expression_text(value))

\* Mutation of _append_param_insert_pk_returning: a Sequence default is
\* rendered whatever the dialect's sequence flags
_append_param_insert_pk_returning_sequence_always(st, inp, c) ==
    IF c.default.kind # "None"
    THEN IF c.default.kind = "Sequence"
         THEN append_implicit_returning(
                  append_value(st, c, format_column(c, FALSE),
                               sequence_text(c)), c)
         ELSE IF c.default.kind = "ClauseElement"
         THEN append_implicit_returning(
                  append_value(st, c, format_column(c, FALSE),
                               default_arg_text(c)), c)
         ELSE append_insert_prefetch(st, c)
    ELSE IF is_autoincrement_column(inp.table, c) \/ c.server_default
    THEN append_implicit_returning(st, c)
    ELSE IF ~c.nullable
    THEN _warn_pk_with_no_anticipated_value(st, c)
    ELSE st

\* _append_param_insert_pk_returning
_append_param_insert_pk_returning(st, inp, c) ==
    IF c.default.kind # "None"
    THEN IF c.default.kind = "Sequence"
         THEN append_implicit_returning(
                  IF sequence_is_invoked(inp, c.default)
                  THEN append_value(st, c, format_column(c, FALSE),
                                    sequence_text(c))
                  ELSE st, c)
         ELSE IF c.default.kind = "ClauseElement"
         THEN append_implicit_returning(
                  append_value(st, c, format_column(c, FALSE),
                               default_arg_text(c)), c)
         ELSE append_insert_prefetch(st, c)
    ELSE IF is_autoincrement_column(inp.table, c) \/ c.server_default
    THEN append_implicit_returning(st, c)
    ELSE IF ~c.nullable
    THEN _warn_pk_with_no_anticipated_value(st, c)
    ELSE st

\* Mutation of preexecutes_default: without the pre-executed
\* autoincrement of a column that has no default
preexecutes_default_only_with_default(inp, c) ==
    /\ c.default.kind # "None"
    /\ \/ c.default.kind # "Sequence"
       \/ sequence_is_invoked(inp, c.default)

\* the condition of the first branch of _append_param_insert_pk_no_returning
preexecutes_default(inp, c) ==
    \/ /\ c.default.kind # "None"
       /\ \/ c.default.kind # "Sequence"
          \/ sequence_is_invoked(inp, c.default)
    \/ /\ is_autoincrement_column(inp.table, c)
       /\ ~inp.dialect.postfetch_lastrowid
       /\ \/ /\ c.default.kind # "None"
             /\ c.default.kind = "Sequence"
             /\ inp.dialect.supports_sequences
          \/ /\ c.default.kind = "None"
             /\ inp.dialect.preexecute_autoincrement_sequences

\* Mutation of _append_param_insert_pk_no_returning: the branch that
\* warns is missing
_append_param_insert_pk_no_returning_without_warning(st, inp, c) ==
    IF preexecutes_default(inp, c)
    THEN append_insert_prefetch(st, c)
    ELSE IF inp.dialect.postfetch_lastrowid
    THEN [st EXCEPT !.postfetch_lastrowid = TRUE]
    ELSE st

\* Mutation of _append_param_insert_pk_no_returning: cursor.lastrowid is
\* tried before the warning
_append_param_insert_pk_no_returning_lastrowid_first(st, inp, c) ==
    IF preexecutes_default(inp, c)
    THEN append_insert_prefetch(st, c)
    ELSE IF inp.dialect.postfetch_lastrowid
    THEN [st EXCEPT !.postfetch_lastrowid = TRUE]
    ELSE IF /\ c.default.kind = "None"
            /\ ~c.server_default
            /\ ~c.nullable
            /\ ~is_autoincrement_column(inp.table, c)
    THEN _warn_pk_with_no_anticipated_value(st, c)
    ELSE st

\* _append_param_insert_pk_no_returning
_append_param_insert_pk_no_returning(st, inp, c) ==
    IF preexecutes_default(inp, c)
    THEN append_insert_prefetch(st, c)
    ELSE IF /\ c.default.kind = "None"
            /\ ~c.server_default
            /\ ~c.nullable
            /\ ~is_autoincrement_column(inp.table, c)
    THEN _warn_pk_with_no_anticipated_value(st, c)
    ELSE IF inp.dialect.postfetch_lastrowid
    THEN [st EXCEPT !.postfetch_lastrowid = TRUE]
    ELSE st

\* Mutation of route_server_generated: "if" in place of "elif"
route_server_generated_without_elif(st, c, mods) ==
    LET st1 == IF in_return_defaults(mods, c)
               THEN append_implicit_returning(st, c)
               ELSE st
    IN  IF ~c.primary_key THEN append_postfetch(st1, c) ELSE st1

\* Mutation of route_server_generated: without the test "not
\* c.primary_key" before the append to postfetch
route_server_generated_postfetching_primary_key(st, c, mods) ==
    IF in_return_defaults(mods, c)
    THEN append_implicit_returning(st, c)
    ELSE append_postfetch(st, c)

\* "if implicit_return_defaults and c in implicit_return_defaults:
\*      compiler.implicit_returning.append(c)
\*  elif not c.primary_key: compiler.postfetch.append(c)"
route_server_generated(st, c, mods) ==
    IF in_return_defaults(mods, c)
    THEN append_implicit_returning(st, c)
    ELSE IF ~c.primary_key
    THEN append_postfetch(st, c)
    ELSE st

\* _append_param_insert_hasdefault
_append_param_insert_hasdefault(st, inp, c, mods) ==
    IF c.default.kind = "Sequence"
    THEN IF sequence_is_invoked(inp, c.default)
         THEN route_server_generated(
                  append_value(st, c, format_column(c, FALSE),
                               sequence_text(c)), c, mods)
         ELSE st
    ELSE IF c.default.kind = "ClauseElement"
    THEN route_server_generated(
             append_value(st, c, format_column(c, FALSE),
                          default_arg_text(c)), c, mods)
    ELSE append_insert_prefetch(st, c)

\* add_select_cols.append((c, format_column(c), value))
append_select_col(st, c, value) ==
    [st EXCEPT !.add_select_cols =
         Append(@, Triple(ColRef(c), format_column(c, FALSE), value))]

\* Mutation of _append_param_insert_select_hasdefault: a Python-side
\* default is left out
_append_param_insert_select_hasdefault_omitting_callable(st, inp, c) ==
    IF c.default.kind = "None"
    THEN [st EXCEPT !.error = "AttributeError"]
    ELSE IF c.default.kind = "Sequence"
    THEN IF sequence_is_invoked(inp, c.default)
         THEN append_select_col(st, c, sequence_text(c))
         ELSE st
    ELSE IF c.default.kind = "ClauseElement"
    THEN append_select_col(st, c, default_arg_text(c))
    ELSE st

\* _append_param_insert_select_hasdefault; "values" is add_select_cols.
\* default_is_sequence is operator.attrgetter("is_sequence"): on a
\* c.default of None it raises AttributeError.
_append_param_insert_select_hasdefault(st, inp, c) ==
    IF c.default.kind = "None"
    THEN [st EXCEPT !.error = "AttributeError"]
    ELSE IF c.default.kind = "Sequence"
    THEN IF sequence_is_invoked(inp, c.default)
         THEN append_select_col(st, c, sequence_text(c))
         ELSE st
    ELSE IF c.default.kind = "ClauseElement"
    THEN append_select_col(st, c, default_arg_text(c))
    ELSE append_select_col(
             _create_insert_prefetch_bind_param(st, ColRef(c)), c,
             prefetch_param(c, ""))

\* Mutation of _append_param_update: an unconfigured column is returned
\* whenever it is in implicit_return_defaults, named or not
_append_param_update_returning_all_columns(st, inp, c, mods) ==
    LET col_text == format_column(c, inp.include_table_with_column_exprs)
    IN  IF c.onupdate.kind # "None" /\ c.onupdate.kind # "Sequence"
        THEN IF c.onupdate.kind = "ClauseElement"
             THEN LET st1 == append_value(st, c, col_text,
                                          onupdate_arg_text(c))
                  IN  IF in_return_defaults(mods, c)
                      THEN append_implicit_returning(st1, c)
                      ELSE append_postfetch(st1, c)
             ELSE append_value(
                      _create_update_prefetch_bind_param(st, ColRef(c)),
                      c, col_text, prefetch_param(c, ""))
        ELSE IF c.server_onupdate
        THEN IF in_return_defaults(mods, c)
             THEN append_implicit_returning(st, c)
             ELSE append_postfetch(st, c)
        ELSE IF ColRef(c) \in mods.implicit_return_defaults
        THEN append_implicit_returning(st, c)
        ELSE st

\* _append_param_update
_append_param_update(st, inp, c, mods) ==
    LET col_text == format_column(c, inp.include_table_with_column_exprs)
    IN  IF c.onupdate.kind # "None" /\ c.onupdate.kind # "Sequence"
        THEN IF c.onupdate.kind = "ClauseElement"
             THEN LET st1 == append_value(st, c, col_text,
                                          onupdate_arg_text(c))
                  IN  IF in_return_defaults(mods, c)
                      THEN append_implicit_returning(st1, c)
                      ELSE append_postfetch(st1, c)
             ELSE append_value(
                      _create_update_prefetch_bind_param(st, ColRef(c)),
                      c, col_text, prefetch_param(c, ""))
        ELSE IF c.server_onupdate
        THEN IF in_return_defaults(mods, c)
             THEN append_implicit_returning(st, c)
             ELSE append_postfetch(st, c)
        ELSE IF /\ mods.implicit_return_defaults # {}
                /\ (inp._return_defaults_columns # {}
                    \/ ~inp._return_defaults)
                /\ ColRef(c) \in mods.implicit_return_defaults
        THEN append_implicit_returning(st, c)
        ELSE st

(* ------------------------------------------------------------------ *)
(* The scans                                                           *)
(* ------------------------------------------------------------------ *)

\* the triple of a non-column left-hand side, "as is"; a literal right
\* side is BindParameter(None, v): an anonymous name of its own
ExprRef(k) == [table |-> "<expression>", key |-> k.key, original |-> k.key, index |-> -1]

as_is_value(st, v) ==
    IF _is_literal(v)
    THEN Rendered("bindparam", "param_" \o ToString(Len(st.values) + 1),
                  v.v, FALSE, "anonymous")
    ELSE IF v.kind = "bindparam"
    THEN Rendered("bindparam", v.v, v.v, FALSE, "caller")
    ELSE expression_text(v)

\* _get_stmt_parameter_tuples_params: the loop from item i on
RECURSIVE _get_stmt_parameter_tuples_params(_, _, _, _)
_get_stmt_parameter_tuples_params(st, inp, tuples, i) ==
    IF i > Len(tuples) THEN st
    ELSE LET k == tuples[i][1]
             v == tuples[i][2]
             colkey == _column_as_key(inp, k)
             st1 == IF colkey # NoneKey
                    THEN [st EXCEPT !.parameters = setdefault(@, colkey, v)]
                    ELSE [st EXCEPT !.values = Append(@,
                              Triple(ExprRef(k),
                                     format_column(k, inp.include_table_with_column_exprs),
                                     as_is_value(st, v)))]
         IN  Then(st1, LAMBDA s : _get_stmt_parameter_tuples_params(s, inp, tuples, i + 1))

\* "c in normalized_params": a Column of the values() keys is this column
in_normalized_params(tuples, c) ==
    \E i \in DOMAIN tuples :
        /\ tuples[i][1].iscol
        /\ tuples[i][1].table = c.table
        /\ tuples[i][1].key = c.key

\* normalized_params[c]: a dict keeps the last value given for a key
normalized_param(tuples, c) ==
    LET hits == {i \in DOMAIN tuples :
                    /\ tuples[i][1].iscol
                    /\ tuples[i][1].table = c.table
                    /\ tuples[i][1].key = c.key}
    IN  tuples[CHOOSE i \in hits : \A j \in hits : j <= i][2]

\* one column of the first loop of _get_update_multitable_params
multitable_declared(st, inp, tuples, c) ==
    LET value == normalized_param(tuples, c)
        col_value == format_column(c, inp.include_table_with_column_exprs)
        st1 == [st EXCEPT !.check_columns = @ \cup {_getattr_col_key(inp, c)}]
    IN  IF _is_literal(value)
        THEN append_value(st1, c, col_value,
                 _create_bind_param(c, value, value = REQUIRED,
                                    _col_bind_name(inp, c)))
        ELSE IF value.kind = "bindparam"
        THEN append_value(st1, c, col_value,
                 _handle_values_anonymous_param(inp, c, value,
                                                _col_bind_name(inp, c)))
        ELSE append_value(append_postfetch(st1, c), c, col_value,
                          expression_text(value))

\* one column of the second loop of _get_update_multitable_params
multitable_default(st, inp, tuples, c) ==
    LET col_text == format_column(c, inp.include_table_with_column_exprs)
    IN  IF in_normalized_params(tuples, c) THEN st
        ELSE IF c.onupdate.kind # "None" /\ c.onupdate.kind # "Sequence"
        THEN IF c.onupdate.kind = "ClauseElement"
             THEN append_postfetch(
                      append_value(st, c, col_text, onupdate_arg_text(c)), c)
             ELSE append_value(
                      _create_update_prefetch_bind_param(st, ColRef(c)),
                      c, col_text, prefetch_param(c, _col_bind_name(inp, c)))
        ELSE IF c.server_onupdate
        THEN append_postfetch(st, c)
        ELSE st

\* the columns of table t from column j on, in one of the two loops
RECURSIVE multitable_columns(_, _, _, _, _, _)
multitable_columns(st, inp, tuples, t, j, first) ==
    IF j > Len(t.columns) THEN st
    ELSE LET c == t.columns[j]
             st1 == IF first
                    THEN IF in_normalized_params(tuples, c)
                         THEN multitable_declared(st, inp, tuples, c)
                         ELSE st
                    ELSE multitable_default(st, inp, tuples, c)
         IN  Then(st1, LAMBDA s : multitable_columns(s, inp, tuples, t, j + 1, first))

\* a loop over the tables ts[i..]
RECURSIVE multitable_tables(_, _, _, _, _, _)
multitable_tables(st, inp, tuples, ts, i, first) ==
    IF i > Len(ts) THEN st
    ELSE Then(multitable_columns(st, inp, tuples, ts[i], 1, first),
              LAMBDA s : multitable_tables(s, inp, tuples, ts, i + 1, first))

\* Mutation of is_affected: every extra table counts as affected
is_affected_every_table(tuples, t) == t.columns # <<>>

\* affected_tables: the extra tables with a declared column
is_affected(tuples, t) ==
    \E j \in DOMAIN t.columns : in_normalized_params(tuples, t.columns[j])

Reverse(s) == [i \in 1..Len(s) |-> s[Len(s) + 1 - i]]

\* "for t in affected_tables": affected_tables is a set of Table objects,
\* hashed by identity, so the order of its iteration is not fixed by the
\* program; inp.hash_order is the order this run of the interpreter gives.
affected_tables_in_order(inp, tuples) ==
    LET affected == SelectSeq(inp._extra_froms, LAMBDA t : is_affected(tuples, t))
    IN  IF inp.hash_order = "forward" THEN affected ELSE Reverse(affected)

\* _get_update_multitable_params; stmt_parameter_tuples of None is
\* iterated all the same, which raises TypeError
_get_update_multitable_params(st, inp, tuples, tuples_is_none) ==
    IF tuples_is_none
    THEN [st EXCEPT !.error = "TypeError"]
    ELSE Then(multitable_tables(st, inp, tuples, inp._extra_froms, 1, TRUE),
              LAMBDA s : multitable_tables(s, inp, tuples,
                             affected_tables_in_order(inp, tuples), 1, FALSE))

\* the body of the loop of _scan_cols, for column c
_scan_col(st, inp, mods, c) ==
    LET col_key == _getattr_col_key(inp, c)
    IN  IF col_key \in DOMAIN st.parameters /\ col_key \notin st.check_columns
        THEN _append_param_parameter(st, inp, c, col_key, mods)
        ELSE IF inp.isinsert
        THEN IF c.primary_key /\ mods.need_pks
             THEN IF mods.implicit_returning
                  THEN _append_param_insert_pk_returning(st, inp, c)
                  ELSE _append_param_insert_pk_no_returning(st, inp, c)
             ELSE IF c.default.kind # "None"
             THEN _append_param_insert_hasdefault(st, inp, c, mods)
             ELSE IF c.server_default
             THEN route_server_generated(st, c, mods)
             ELSE IF in_return_defaults(mods, c)
             THEN append_implicit_returning(st, c)
             ELSE IF /\ c.primary_key
                     /\ ~is_autoincrement_column(inp.table, c)
                     /\ ~c.nullable
             THEN _warn_pk_with_no_anticipated_value(st, c)
             ELSE st
        ELSE _append_param_update(st, inp, c, mods)

\* "isinstance(key, str)": a bare key, neither a tuple nor None
is_str_key(k) == k # NoneKey /\ k[1] = ""

\* the list "cols" of _scan_cols
scan_order(inp) ==
    IF inp._parameter_ordering # <<>>
    THEN LET parameter_ordering ==
                 [i \in DOMAIN inp._parameter_ordering |->
                      _column_as_key(inp, inp._parameter_ordering[i])]
             ordered_keys == SeqToSet(parameter_ordering)
             named == SelectSeq(parameter_ordering,
                          LAMBDA k : is_str_key(k) /\ HasKey(inp.table, k[2]))
         IN  [i \in DOMAIN named |-> ColumnOf(inp.table, named[i][2])]
             \o SelectSeq(inp.table.columns,
                          LAMBDA c : <<"", c.key>> \notin ordered_keys)
    ELSE inp.table.columns

RECURSIVE scan_loop(_, _, _, _, _)
scan_loop(st, inp, mods, cols, i) ==
    IF i > Len(cols) \/ st.error # "" THEN st
    ELSE Then(_scan_col(st, inp, mods, cols[i]),
              LAMBDA s : scan_loop(s, inp, mods, cols, i + 1))

\* _scan_cols
_scan_cols(st, inp) ==
    Then(_get_returning_modifiers(inp),
         LAMBDA mods : Then(scan_order(inp),
             LAMBDA cols : scan_loop(st, inp, mods, cols, 1)))

\* the body of the loop "for c in cols" of _scan_insert_from_select_cols
_scan_select_col(st, inp, c) ==
    LET col_key == _getattr_col_key(inp, c)
    IN  IF col_key \in DOMAIN st.parameters /\ col_key \notin st.check_columns
        THEN [append_value(st, c, format_column(c, FALSE), NoValue)
                  EXCEPT !.parameters = pop(@, col_key)]
        ELSE _append_param_insert_select_hasdefault(st, inp, c)

RECURSIVE select_loop(_, _, _, _)
select_loop(st, inp, cols, i) ==
    IF i > Len(cols) \/ st.error # "" THEN st
    ELSE Then(_scan_select_col(st, inp, cols[i]),
              LAMBDA s : select_loop(s, inp, cols, i + 1))

\* the list "cols" of _scan_insert_from_select_cols
select_cols(inp) ==
    LET named == [i \in DOMAIN inp._select_names |->
                      ColumnOf(inp.table, inp._select_names[i])]
        col_set == SeqToSet(named)
    IN  IF inp.include_insert_from_select_defaults
        THEN named \o SelectSeq(inp.table.columns,
                          LAMBDA col : col \notin col_set
                                       /\ col.default.kind # "None")
        ELSE named

\* _scan_insert_from_select_cols; table.c[name] of a name that is no
\* column of the table raises KeyError
_scan_insert_from_select_cols(st, inp) ==
    IF \E i \in DOMAIN inp._select_names :
           ~HasKey(inp.table, inp._select_names[i])
    THEN [st EXCEPT !.error = "KeyError"]
    ELSE Then(select_loop(st, inp, select_cols(inp), 1),
              LAMBDA st1 : IF st1.error = ""
                           THEN [st1 EXCEPT !.values = @ \o st1.add_select_cols]
                           ELSE st1)

(* ------------------------------------------------------------------ *)
(* Batched INSERT                                                      *)
(* ------------------------------------------------------------------ *)

\* Mutation of _process_multiparam_default_bind: the pre-executed default
\* of a later row is recorded under the column itself, not under a
\* _multiparam_column
_process_multiparam_default_bind_without_wrapper(st, inp, c, index) ==
    IF c.default.kind = "None"
    THEN [st |-> [st EXCEPT !.error = "CompileError:explicit value required"],
          param |-> NoValue]
    ELSE IF c.default.kind = "ClauseElement"
    THEN [st |-> st, param |-> default_arg_text(c)]
    ELSE IF c.default.kind = "Sequence"
    THEN [st |-> st, param |-> sequence_text(c)]
    ELSE LET col == _multiparam_column(c, index)
         IN  IF inp.isinsert
             THEN [st |-> _create_insert_prefetch_bind_param(st, ColRef(c)),
                   param |-> prefetch_param(col, "")]
             ELSE [st |-> _create_update_prefetch_bind_param(st, ColRef(c)),
                   param |-> prefetch_param(col, "")]

\* The result of one step that renders a value: the state and the value.
\* _process_multiparam_default_bind(compiler, stmt, c, index, kw)
_process_multiparam_default_bind(st, inp, c, index) ==
    IF c.default.kind = "None"
    THEN [st |-> [st EXCEPT !.error = "CompileError:explicit value required"],
          param |-> NoValue]
    ELSE IF c.default.kind = "ClauseElement"
    THEN [st |-> st, param |-> default_arg_text(c)]
    ELSE IF c.default.kind = "Sequence"
    THEN [st |-> st, param |-> sequence_text(c)]
    ELSE LET col == _multiparam_column(c, index)
         IN  IF inp.isinsert
             THEN [st |-> _create_insert_prefetch_bind_param(st, col),
                   param |-> prefetch_param(col, "")]
             ELSE [st |-> _create_update_prefetch_bind_param(st, col),
                   param |-> prefetch_param(col, "")]

\* "row = {_column_as_key(key): v ...}; col.key in row"
row_has(inp, row, key) ==
    \E j \in DOMAIN row : _column_as_key(inp, row[j][1]) = <<"", key>>

\* row[key]: the dict keeps the last value given for a key
row_value(inp, row, key) ==
    LET hits == {j \in DOMAIN row : _column_as_key(inp, row[j][1]) = <<"", key>>}
    IN  row[CHOOSE j \in hits : \A h \in hits : h <= j][2]

\* "%s_m%d" % (col.key, i + 1)
multiparam_bind_name(c, i) == c.key \o "_m" \o ToString(i + 1)

\* one triple of values_0 replayed for the row of index i (mp[1:][i])
extend_triple(st, inp, row, i, triple) ==
    LET c == ColumnOf(inp.table, triple.col.key)
    IN  IF row_has(inp, row, c.key)
        THEN LET v == row_value(inp, row, c.key)
             IN  [st |-> st,
                  param |-> IF _is_literal(v)
                            THEN _create_bind_param(c, v, FALSE,
                                     multiparam_bind_name(c, i))
                            ELSE IF v.kind = "bindparam"
                            THEN Rendered("bindparam", v.v, v.v, FALSE, "caller")
                            ELSE expression_text(v)]
        ELSE _process_multiparam_default_bind(st, inp, c, i)

\* the loop "for (col, col_expr, param) in values_0" from triple j on;
\* extension is the row built so far
RECURSIVE extend_row(_, _, _, _, _, _, _)
extend_row(st, inp, values_0, row, i, j, extension) ==
    IF j > Len(values_0) \/ st.error # ""
    THEN [st |-> st, extension |-> extension]
    ELSE Then(extend_triple(st, inp, row, i, values_0[j]),
              LAMBDA r : extend_row(r.st, inp, values_0, row, i, j + 1,
                  Append(extension,
                         Triple(values_0[j].col, values_0[j].text, r.param))))

\* the loop "for i, row in enumerate(mp[1:])" from row i on
RECURSIVE extend_rows(_, _, _, _, _)
extend_rows(st, inp, values_0, i, values) ==
    IF i + 2 > Len(inp._multi_parameters) \/ st.error # ""
    THEN [st |-> st, values |-> values]
    ELSE Then(extend_row(st, inp, values_0,
                         inp._multi_parameters[i + 2], i, 1, <<>>),
              LAMBDA r : extend_rows(r.st, inp, values_0, i + 1,
                                     Append(values, r.extension)))

\* Mutation of _extend_values_for_multiparams: the loop over mp[2:]
\* instead of mp[1:]
_extend_values_skipping_a_row(st, inp, initial_values) ==
    extend_rows(st, inp, initial_values, 1, <<initial_values>>)

\* _extend_values_for_multiparams
_extend_values_for_multiparams(st, inp, initial_values) ==
    extend_rows(st, inp, initial_values, 0, <<initial_values>>)

(* ------------------------------------------------------------------ *)
(* _get_crud_params                                                    *)
(* ------------------------------------------------------------------ *)

\* stmt_parameter_tuples is None
tuples_is_none(inp) ==
    /\ ~inp._has_multi_parameters
    /\ inp._ordered_values = <<>>
    /\ inp._dict_parameters = <<>>

\* stmt_parameter_tuples (<<>> when None)
stmt_parameter_tuples(inp) ==
    IF inp._has_multi_parameters THEN inp._multi_parameters[1]
    ELSE IF inp._ordered_values # <<>> THEN inp._ordered_values
    ELSE inp._dict_parameters

\* spd
spd(inp) ==
    IF inp._has_multi_parameters THEN inp._multi_parameters[1]
    ELSE inp._dict_parameters

\* "key not in spd" for a str key of compiler.column_keys: only a str key
\* of the dict is equal to it
in_spd(inp, key) ==
    \E i \in DOMAIN spd(inp) :
        /\ spd(inp)[i][1].iscol
        /\ spd(inp)[i][1].table = ""
        /\ spd(inp)[i][1].key = key

\* the dict "parameters" before the statement's own values are added
initial_parameters(inp) ==
    IF inp.column_keys.none THEN EmptyDict
    ELSE LET keys == {inp.column_keys.keys[i] : i \in DOMAIN inp.column_keys.keys}
             kept == IF stmt_parameter_tuples(inp) # <<>>
                     THEN {k \in keys : ~in_spd(inp, k)}
                     ELSE keys
         IN  [k \in {<<"", key>> : key \in kept} |-> REQUIRED]

\* Mutation of unconsumed: the check without ".difference(check_columns)"
unconsumed_ignoring_check_columns(st, inp) ==
    IF DOMAIN st.parameters # {} /\ stmt_parameter_tuples(inp) # <<>>
    THEN DOMAIN st.parameters
            \cap {_column_as_key(inp, stmt_parameter_tuples(inp)[i][1]) :
                      i \in DOMAIN stmt_parameter_tuples(inp)}
    ELSE {}

\* the keys named by "Unconsumed column names"
unconsumed(st, inp) ==
    IF DOMAIN st.parameters # {} /\ stmt_parameter_tuples(inp) # <<>>
    THEN (DOMAIN st.parameters
            \cap {_column_as_key(inp, stmt_parameter_tuples(inp)[i][1]) :
                      i \in DOMAIN stmt_parameter_tuples(inp)})
         \ st.check_columns
    ELSE {}

\* what a call leaves behind: the _CrudParams returned (status "ok") or
\* the exception raised, the compiler's attributes, the warnings emitted
Outcome(st, status, single_params, all_multi_params, names) ==
    [status |-> status, single_params |-> single_params,
     all_multi_params |-> all_multi_params, unconsumed |-> names,
     postfetch |-> st.postfetch, insert_prefetch |-> st.insert_prefetch,
     update_prefetch |-> st.update_prefetch,
     implicit_returning |-> st.implicit_returning,
     postfetch_lastrowid |-> st.postfetch_lastrowid,
     warnings |-> st.warnings]

\* Mutation of fast_path_values: the primary key columns left out
fast_path_values_without_primary_key(inp) ==
    LET cols == SelectSeq(inp.table.columns, LAMBDA c : ~c.primary_key)
    IN  [i \in DOMAIN cols |->
            Triple(ColRef(cols[i]), format_column(cols[i], FALSE),
                   _create_bind_param(cols[i], PyNone, TRUE, ""))]

\* the return for "compiler.column_keys is None and
\* compile_state._no_parameters"
fast_path_values(inp) ==
    [i \in DOMAIN inp.table.columns |->
        Triple(ColRef(inp.table.columns[i]),
               format_column(inp.table.columns[i], FALSE),
               _create_bind_param(inp.table.columns[i], PyNone, TRUE, ""))]

\* INSERT (firstcol) VALUES (DEFAULT)
default_metavalue_values(inp) ==
    <<Triple(ColRef(inp.table.columns[1]),
             format_column(inp.table.columns[1], FALSE),
             Rendered("keyword", "DEFAULT", "", FALSE, "keyword"))>>

\* the end of _get_crud_params, after the scan: the unconsumed-names
\* check, then the batch extension or the DEFAULT VALUES conversion
finish(st, inp) ==
    IF st.error # "" THEN Outcome(st, st.error, <<>>, <<>>, {})
    ELSE IF unconsumed(st, inp) # {}
    THEN Outcome(st, "CompileError:unconsumed", <<>>, <<>>, unconsumed(st, inp))
    ELSE IF inp._has_multi_parameters
    THEN Then(_extend_values_for_multiparams(st, inp, st.values),
              LAMBDA r : IF r.st.error # ""
                         THEN Outcome(r.st, r.st.error, <<>>, <<>>, {})
                         ELSE Outcome(r.st, "ok", st.values, r.values, {}))
    ELSE IF /\ st.values = <<>>
            /\ inp.for_executemany
            /\ inp.dialect.supports_default_metavalue
    THEN Outcome(st, "ok", default_metavalue_values(inp), <<>>, {})
    ELSE Outcome(st, "ok", st.values, <<>>, {})

\* the four assignments that open _get_crud_params: the collections are
\* new lists; compiler.postfetch_lastrowid is not among them
reset_collections(compiler, inp) ==
    ScanState(initial_parameters(inp), compiler.postfetch_lastrowid)

\* the steps of _get_crud_params before the scan: the statement's values
\* enter "parameters"; a multi-table UPDATE handles its extra tables
before_scan(st0, inp) ==
    Then(IF ~tuples_is_none(inp)
         THEN _get_stmt_parameter_tuples_params(
                  st0, inp, stmt_parameter_tuples(inp), 1)
         ELSE st0,
         LAMBDA st1 : IF isupdate(inp) /\ is_multitable(inp)
                      THEN _get_update_multitable_params(
                               st1, inp, stmt_parameter_tuples(inp),
                               tuples_is_none(inp))
                      ELSE st1)

\* the scan of the columns
scan(st2, inp) ==
    IF st2.error # "" THEN st2
    ELSE IF inp.isinsert /\ inp._select_names # <<>>
    THEN _scan_insert_from_select_cols(st2, inp)
    ELSE _scan_cols(st2, inp)

\* _get_crud_params(compiler, stmt, compile_state, toplevel, **kw)
_get_crud_params(compiler, inp) ==
    Then(reset_collections(compiler, inp),
         LAMBDA st0 :
             IF inp.column_keys.none /\ inp._no_parameters
             THEN Outcome(st0, "ok", fast_path_values(inp), <<>>, {})
             ELSE Then(before_scan(st0, inp),
                       LAMBDA st2 : Then(scan(st2, inp),
                                         LAMBDA st3 : finish(st3, inp))))

(* ------------------------------------------------------------------ *)
(* The statements compiled: bounded families of inputs                 *)
(* ------------------------------------------------------------------ *)

\* dialects that differ in the five flags the column decisions read
ScanDialects ==
    {Dialect(ss, so, ir, pl, pa, FALSE, FALSE) :
        ss \in BOOLEAN, so \in BOOLEAN, ir \in BOOLEAN,
        pl \in BOOLEAN, pa \in BOOLEAN}

\* the table T(id, name, created_at) around a column "id" of any shape:
\* name is a plain column, created_at has a server default only
NameColumn == Column("name", "t", FALSE, TRUE, NoDefault, FALSE, NoDefault, FALSE)
CreatedAtColumn == Column("created_at", "t", FALSE, TRUE, NoDefault, TRUE, NoDefault, FALSE)

IdColumns ==
    {Column("id", "t", pk, nullable, d, sd, NoDefault, FALSE) :
        pk \in BOOLEAN, nullable \in BOOLEAN, d \in DefaultKinds,
        sd \in BOOLEAN}

\* the autoincrement column of a table is one of its primary key columns
InsertTables ==
    {Table("t", <<c, NameColumn, CreatedAtColumn>>, auto, TRUE) :
        c \in IdColumns, auto \in {"", "id"}}

IsTable(t) ==
    t.autoincrement = ""
    \/ \E i \in DOMAIN t.columns :
           t.columns[i].key = t.autoincrement /\ t.columns[i].primary_key

\* T(id: primary key and autoincrement column, name, created_at: server
\* default)
ScenarioT ==
    Table("t", <<Column("id", "t", TRUE, FALSE, NoDefault, FALSE, NoDefault, FALSE), NameColumn, CreatedAtColumn>>, "id", TRUE)

\* id: a primary key with nothing that could give it a value
TableBarePk ==
    Table("t", <<Column("id", "t", TRUE, FALSE, NoDefault, FALSE, NoDefault, FALSE), NameColumn, CreatedAtColumn>>, "", TRUE)

\* id: a primary key with a Python-side default, and on-update defaults
TableCallablePk ==
    Table("t", <<Column("id", "t", TRUE, FALSE, CallableDefault, FALSE, CallableDefault, TRUE), NameColumn, CreatedAtColumn>>, "", TRUE)

\* id: no primary key, a Sequence default
TableSequence ==
    Table("t", <<Column("id", "t", FALSE, TRUE, SequenceDefault(FALSE), FALSE, NoDefault, FALSE), NameColumn, CreatedAtColumn>>, "", TRUE)

SomeTables == {ScenarioT, TableBarePk, TableCallablePk, TableSequence}

\* an Insert or Update with a values() dictionary (empty: no values())
WithDict(stmt, dict) ==
    [stmt EXCEPT !._dict_parameters = dict, !._no_parameters = (dict = <<>>)]

\* an Insert of one row
Insert(table, dict, column_keys, dialect) ==
    [WithDict(Statement, dict) EXCEPT !.table = table,
        !.column_keys = column_keys, !.dialect = dialect]

\* an Insert of several rows: Insert.values([row, ...])
InsertMany(table, rows, dialect) ==
    [Statement EXCEPT !.table = table, !.dialect = dialect,
        !._no_parameters = FALSE, !._has_multi_parameters = TRUE,
        !._multi_parameters = rows, !._dict_parameters = rows[1]]

\* Insert.from_select(names, select): the names are the keys of
\* _dict_parameters, each with the value Null()
InsertFromSelect(table, names, include_defaults, dialect) ==
    [Statement EXCEPT !.table = table, !.dialect = dialect,
        !._no_parameters = FALSE, !._select_names = names,
        !.include_insert_from_select_defaults = include_defaults,
        !._dict_parameters =
            LET distinct == SelectSeq([i \in DOMAIN names |-> <<i, names[i]>>],
                               LAMBDA p : \A j \in 1..(p[1] - 1) : names[j] # p[2])
            IN  [i \in DOMAIN distinct |->
                    <<DKey("", distinct[i][2]), SqlExpr("NULL")>>]]

\* an Update, with values() or ordered_values()
Update(table, dict, ordered, column_keys, dialect) ==
    [WithDict(Statement, IF ordered # <<>> THEN ordered ELSE dict)
        EXCEPT !.isinsert = FALSE, !.table = table,
        !._ordered_values = ordered,
        !._parameter_ordering = [i \in DOMAIN ordered |-> ordered[i][1]],
        !.column_keys = column_keys, !.dialect = dialect]

ReturnDefaults(stmt, cols) ==
    [stmt EXCEPT !._return_defaults = TRUE, !._return_defaults_columns = cols]

IdRef == [table |-> "t", key |-> "id", original |-> "id", index |-> -1]
NameRef == [table |-> "t", key |-> "name", original |-> "name", index |-> -1]
CreatedAtRef == [table |-> "t", key |-> "created_at", original |-> "created_at", index |-> -1]

\* the settings the decisions of _scan_cols are checked under: a plain
\* top-level statement; return_defaults() of all columns, of id, of
\* name; an inline statement; a table that forbids implicit RETURNING
ScanSettings ==
    {"plain", "return_defaults", "return_defaults_id",
     "return_defaults_name", "inline", "no_table_returning"}

Setting(name, stmt) ==
    CASE name = "plain" -> stmt
      [] name = "return_defaults" -> ReturnDefaults(stmt, {})
      [] name = "return_defaults_id" -> ReturnDefaults(stmt, {IdRef})
      [] name = "return_defaults_name" -> ReturnDefaults(stmt, {NameRef})
      [] name = "inline" -> [stmt EXCEPT !._inline = TRUE]
      [] name = "no_table_returning" ->
             [stmt EXCEPT !.table.implicit_returning = FALSE]

\* values() that leave id undeclared, or give it a SQL expression
ValuesName == <<<<DKey("", "name"), Literal("a")>>>>
ValuesIdExpr == <<<<DKey("", "id"), SqlExpr("func()")>>, <<DKey("", "name"), Literal("a")>>>>

\* the shapes of the values of a single-row INSERT: the values()
\* dictionary and compiler.column_keys
ValueShapes ==
    {<<<<>>, NoColumnKeys>>,
     <<<<>>, ColumnKeys(<<>>)>>,
     <<<<>>, ColumnKeys(<<"id", "name">>)>>,
     <<ValuesName, NoColumnKeys>>,
     <<ValuesName, ColumnKeys(<<"name", "qq">>)>>,
     <<<<<<DKey("", "id"), Literal("1")>>, <<DKey("", "name"), Literal("a")>>>>, NoColumnKeys>>,
     <<<<<<DKey("", "id"), BindHandle("param_1", TRUE)>>>>, NoColumnKeys>>,
     <<<<<<DKey("", "id"), BindHandle("name", FALSE)>>, <<DKey("", "name"), Literal("a")>>>>, NoColumnKeys>>,
     <<<<<<DKey("", "name"), Literal("a")>>, <<DKey("", "zz"), Literal("1")>>>>, NoColumnKeys>>,
     <<<<<<DKey("", "created_at"), SqlExpr("now()")>>>>, NoColumnKeys>>}

(* ------------------------------------------------------------------ *)
(* The state machine                                                   *)
(* ------------------------------------------------------------------ *)

\* compiler: the attributes of the SQLCompiler that _get_crud_params
\*     assigns; call: the arguments of the latest call; result: what it
\*     returned or raised and the warnings it emitted; pc: "ready" before
\*     the compiler has compiled a statement, "done" after a call.
VARIABLES compiler, call, result, pc

vars == <<compiler, call, result, pc>>

\* a SQLCompiler as constructed: nothing collected, postfetch_lastrowid
\* False
NewCompiler ==
    [postfetch |-> <<>>, insert_prefetch |-> <<>>, update_prefetch |-> <<>>,
     implicit_returning |-> <<>>, postfetch_lastrowid |-> FALSE]

NoResult ==
    [status |-> "", single_params |-> <<>>, all_multi_params |-> <<>>,
     unconsumed |-> {}, warnings |-> <<>>]

Init ==
    /\ compiler = NewCompiler
    /\ call = Statement
    /\ result = NoResult
    /\ pc = "ready"

\* one call of _get_crud_params on the compiler, with arguments inp
Call(inp) ==
    \E out \in {_get_crud_params(compiler, inp)} :
        /\ compiler' = [postfetch |-> out.postfetch,
                        insert_prefetch |-> out.insert_prefetch,
                        update_prefetch |-> out.update_prefetch,
                        implicit_returning |-> out.implicit_returning,
                        postfetch_lastrowid |-> out.postfetch_lastrowid]
        /\ result' = [status |-> out.status,
                      single_params |-> out.single_params,
                      all_multi_params |-> out.all_multi_params,
                      unconsumed |-> out.unconsumed,
                      warnings |-> out.warnings]
        /\ call' = inp
        /\ pc' = "done"

\* an INSERT of one row into T(id, name, created_at), for every shape of
\* the column id and every dialect, id undeclared or a SQL expression
CompileInsert ==
    /\ pc = "ready"
    /\ \E t \in InsertTables, v \in {ValuesName, ValuesIdExpr},
          d \in ScanDialects, s \in ScanSettings :
          /\ IsTable(t)
          /\ Call(Setting(s, Insert(t, v, NoColumnKeys, d)))

\* an INSERT of one row, for every shape of its values and of
\* compiler.column_keys, executed once or as executemany
CompileInsertValues ==
    /\ pc = "ready"
    /\ \E t \in SomeTables, shape \in ValueShapes,
          ir \in BOOLEAN, pl \in BOOLEAN, dm \in BOOLEAN,
          many \in BOOLEAN, cte \in BOOLEAN, rd \in BOOLEAN :
          Call([Insert(t, shape[1], shape[2],
                       Dialect(TRUE, FALSE, ir, pl, FALSE, FALSE, dm))
                  EXCEPT !.for_executemany = many, !.visiting_cte = cte,
                         !._return_defaults = rd])

\* an INSERT of one row, for every setting _get_returning_modifiers reads
CompileInsertReturning ==
    /\ pc = "ready"
    /\ \E t \in {ScenarioT, TableCallablePk},
          toplevel \in BOOLEAN, inline \in BOOLEAN, returning \in BOOLEAN,
          many \in BOOLEAN, emr \in BOOLEAN, rd \in BOOLEAN,
          tir \in BOOLEAN, cols \in {{}, {CreatedAtRef}},
          ir \in BOOLEAN, pl \in BOOLEAN :
          Call([Insert(t, ValuesName, NoColumnKeys,
                       Dialect(TRUE, FALSE, ir, pl, FALSE, emr, FALSE))
                  EXCEPT !.toplevel = toplevel, !._inline = inline,
                         !._returning = returning, !.for_executemany = many,
                         !._return_defaults = rd,
                         !._return_defaults_columns = cols,
                         !.table.implicit_returning = tir])

\* the columns of a batched INSERT: x, and a second column named y or,
\* like the bind parameter of x in the second row, x_m1
BatchFirstColumns ==
    {Column("x", "t", FALSE, TRUE, d, sd, NoDefault, FALSE) :
        d \in {NoDefault, CallableDefault}, sd \in BOOLEAN} \
    {Column("x", "t", FALSE, TRUE, CallableDefault, TRUE, NoDefault, FALSE)}

BatchSecondColumns(key) ==
    {Column(key, "t", FALSE, TRUE, d, FALSE, NoDefault, FALSE) : d \in DefaultKinds \ {SequenceDefault(TRUE)}}
    \cup {Column(key, "t", FALSE, TRUE, NoDefault, TRUE, NoDefault, FALSE),
          Column(key, "t", TRUE, FALSE, NoDefault, FALSE, NoDefault, FALSE),
          Column(key, "t", TRUE, FALSE, CallableDefault, FALSE, NoDefault, FALSE)}

\* one row of Insert.values([...]): x absent, a literal or a SQL
\* expression; the second column absent or a literal; or a key "zz"
BatchRows(key) ==
    {<<>>,
     <<<<DKey("", "x"), Literal("1")>>>>,
     <<<<DKey("", "x"), SqlExpr("func()")>>>>,
     <<<<DKey("", key), Literal("2")>>>>,
     <<<<DKey("", "x"), Literal("1")>>, <<DKey("", key), Literal("2")>>>>,
     <<<<DKey("", "x"), SqlExpr("func()")>>, <<DKey("", key), Literal("2")>>>>,
     <<<<DKey("", "x"), Literal("1")>>, <<DKey("", "zz"), Literal("3")>>>>}

\* a batched INSERT of 1..MaxRows rows
CompileInsertMany ==
    /\ pc = "ready"
    /\ \E key \in {"y", "x_m1"}, ss \in BOOLEAN, n \in 1..MaxRows :
       \E c1 \in BatchFirstColumns, c2 \in BatchSecondColumns(key),
          rows \in [1..n -> BatchRows(key)] :
          Call(InsertMany(Table("t", <<c1, c2>>, "", TRUE), rows,
                          Dialect(ss, FALSE, TRUE, TRUE, FALSE, FALSE, FALSE)))

\* the tables of INSERT ... FROM SELECT: T(id, a, b)
SelectIdColumns ==
    {Column("id", "t", TRUE, FALSE, d, FALSE, NoDefault, FALSE) :
        d \in {NoDefault, CallableDefault, SequenceDefault(FALSE)}}
    \cup {Column("id", "t", FALSE, TRUE, ClauseDefault, FALSE, NoDefault, FALSE)}

SelectNames ==
    {<<"a">>, <<"a", "b">>, <<"b", "a">>, <<"a", "a">>, <<"a", "zz">>}

\* an INSERT ... FROM SELECT, with and without include_defaults
CompileInsertFromSelect ==
    /\ pc = "ready"
    /\ \E id \in SelectIdColumns, da \in {NoDefault, CallableDefault},
          db \in DefaultKinds, names \in SelectNames,
          include_defaults \in BOOLEAN, ss \in BOOLEAN, so \in BOOLEAN :
          Call(InsertFromSelect(
                   Table("t", <<id,
                                Column("a", "t", FALSE, TRUE, da, FALSE, NoDefault, FALSE),
                                Column("b", "t", FALSE, TRUE, db, FALSE, NoDefault, FALSE)>>,
                         IF id.default = NoDefault THEN "id" ELSE "", TRUE),
                   names, include_defaults,
                   Dialect(ss, so, TRUE, FALSE, FALSE, FALSE, FALSE)))

\* the on-update configuration of a column of an UPDATE
OnUpdateKinds ==
    {NoDefault, ClauseDefault, CallableDefault, SequenceDefault(FALSE)}

ARef == [table |-> "t", key |-> "a", original |-> "a", index |-> -1]
BRef == [table |-> "t", key |-> "b", original |-> "b", index |-> -1]

\* the values of an UPDATE of T(a, b): <<values(), ordered_values(),
\* compiler.column_keys>>
UpdateShapes ==
    {<<<<>>, <<>>, NoColumnKeys>>,
     <<<<>>, <<>>, ColumnKeys(<<"a">>)>>,
     <<<<<<DKey("", "a"), Literal("1")>>>>, <<>>, NoColumnKeys>>,
     <<<<<<DKey("", "a"), SqlExpr("a + 1")>>>>, <<>>, NoColumnKeys>>,
     <<<<<<DKey("t", "b"), Literal("1")>>>>, <<>>, NoColumnKeys>>,
     <<<<<<DKey("", "a"), Literal("1")>>, <<DKey("", "zz"), Literal("2")>>>>, <<>>, NoColumnKeys>>,
     <<<<<<ExprKey("a[1]"), Literal("1")>>, <<DKey("", "a"), Literal("1")>>>>, <<>>, NoColumnKeys>>,
     <<<<>>, <<<<DKey("", "b"), Literal("1")>>, <<DKey("", "a"), Literal("2")>>>>, NoColumnKeys>>,
     <<<<>>, <<<<DKey("", "a"), SqlExpr("a + 1")>>>>, NoColumnKeys>>,
     <<<<>>, <<<<DKey("", "a"), Literal("1")>>, <<DKey("", "a"), Literal("2")>>>>, NoColumnKeys>>}

\* what an UPDATE asks back: <<dialect.implicit_returning,
\* table.implicit_returning, _return_defaults, _return_defaults_columns>>
UpdateReturning ==
    {<<TRUE, TRUE, FALSE, {}>>, <<TRUE, TRUE, TRUE, {}>>,
     <<TRUE, TRUE, TRUE, {ARef}>>, <<TRUE, TRUE, TRUE, {BRef}>>,
     <<FALSE, TRUE, TRUE, {}>>, <<TRUE, FALSE, TRUE, {}>>}

\* an UPDATE of one table
CompileUpdate ==
    /\ pc = "ready"
    /\ \E ua \in OnUpdateKinds, sa \in BOOLEAN, ub \in OnUpdateKinds,
          sb \in BOOLEAN, shape \in UpdateShapes, r \in UpdateReturning :
          Call([Update(Table("t", <<Column("a", "t", FALSE, TRUE, NoDefault, FALSE, ua, sa),
                                    Column("b", "t", TRUE, FALSE, CallableDefault, TRUE, ub, sb)>>,
                             "", r[2]),
                       shape[1], shape[2], shape[3],
                       Dialect(TRUE, FALSE, r[1], TRUE, FALSE, FALSE, FALSE))
                  EXCEPT !._return_defaults = r[3],
                         !._return_defaults_columns = r[4]])

\* the values of a multi-table UPDATE of t(a, t2_x) with the extra
\* tables t2(x, y) and t3(x): <<values(), compiler.column_keys>>
MultitableShapes ==
    {<<<<>>, ColumnKeys(<<"a">>)>>,
     <<<<<<DKey("t", "a"), Literal("1")>>>>, NoColumnKeys>>,
     <<<<<<DKey("t2", "x"), Literal("1")>>>>, NoColumnKeys>>,
     <<<<<<DKey("t2", "x"), SqlExpr("x + 1")>>>>, NoColumnKeys>>,
     <<<<<<DKey("t", "a"), Literal("1")>>, <<DKey("t2", "x"), Literal("2")>>>>, NoColumnKeys>>,
     <<<<<<DKey("t", "t2_x"), Literal("1")>>, <<DKey("t2", "x"), Literal("2")>>>>, NoColumnKeys>>,
     <<<<<<DKey("t2", "x"), Literal("1")>>, <<DKey("t3", "x"), Literal("2")>>>>, NoColumnKeys>>,
     <<<<<<DKey("", "x"), Literal("1")>>, <<DKey("t", "a"), Literal("2")>>>>, NoColumnKeys>>}

\* an UPDATE with extra FROM tables
CompileUpdateMultitable ==
    /\ pc = "ready"
    /\ \E ua \in OnUpdateKinds \ {SequenceDefault(FALSE)},
          uy \in OnUpdateKinds \ {SequenceDefault(FALSE)}, sy \in BOOLEAN,
          u3 \in {NoDefault, CallableDefault}, two \in BOOLEAN,
          shape \in MultitableShapes, order \in {"forward", "reverse"},
          include_table \in BOOLEAN, rd \in BOOLEAN :
          LET t == Table("t", <<Column("a", "t", TRUE, FALSE, NoDefault, FALSE, ua, FALSE),
                                Column("t2_x", "t", FALSE, TRUE, NoDefault, FALSE, NoDefault, FALSE)>>, "", TRUE)
              t2 == Table("t2", <<Column("x", "t2", FALSE, TRUE, NoDefault, FALSE, NoDefault, FALSE),
                                  Column("y", "t2", FALSE, TRUE, NoDefault, FALSE, uy, sy)>>, "", TRUE)
              t3 == Table("t3", <<Column("x", "t3", FALSE, TRUE, NoDefault, FALSE, NoDefault, FALSE),
                                  Column("z", "t3", FALSE, TRUE, NoDefault, FALSE, u3, FALSE)>>, "", TRUE)
          IN  Call([Update(t, shape[1], <<>>, shape[2],
                           Dialect(TRUE, FALSE, TRUE, TRUE, FALSE, FALSE, FALSE))
                      EXCEPT !._extra_froms = IF two THEN <<t2, t3>> ELSE <<t2>>,
                             !.hash_order = order,
                             !.include_table_with_column_exprs = include_table,
                             !._return_defaults = rd])

\* the statements of a compiler that compiles more than one DML
\* statement (a statement with DML inside CTEs)
NestedInputs ==
    {[Insert(t, ValuesName, NoColumnKeys,
             Dialect(TRUE, FALSE, ir, pl, FALSE, FALSE, FALSE))
        EXCEPT !.toplevel = toplevel] :
        t \in {ScenarioT, TableCallablePk}, toplevel \in BOOLEAN,
        ir \in BOOLEAN, pl \in BOOLEAN}

\* a further call of _get_crud_params on the same compiler
CompileNested ==
    /\ pc = "done"
    /\ result.status = "ok"
    /\ call \in NestedInputs
    /\ \E inp \in NestedInputs : Call(inp)

Next ==
    \/ CompileInsert
    \/ CompileInsertValues
    \/ CompileInsertReturning
    \/ CompileInsertMany
    \/ CompileInsertFromSelect
    \/ CompileUpdate
    \/ CompileUpdateMultitable
    \/ CompileNested

Spec == Init /\ [][Next]_vars

(* ------------------------------------------------------------------ *)
(* What a finished call has returned                                   *)
(* ------------------------------------------------------------------ *)

\* a call has returned a _CrudParams
Returned == pc = "done" /\ result.status = "ok"

\* the triple sequences of the _CrudParams: all_multi_params for a
\* batched INSERT, else the one sequence single_params
Rows ==
    IF call._has_multi_parameters THEN result.all_multi_params
    ELSE <<result.single_params>>

\* the positions <<row, index>> of the triples of the returned sequences
Positions == UNION {{<<i, j>> : j \in DOMAIN Rows[i]} : i \in DOMAIN Rows}

\* the positions whose value is a bind parameter that crud.py named
GeneratedBinds ==
    {p \in Positions : /\ Rows[p[1]][p[2]].value.kind = "bindparam"
                       /\ Rows[p[1]][p[2]].value.origin \in {"crud", "renamed"}}

BindName(p) == Rows[p[1]][p[2]].value.name

\* the call took the fast path
FastPath == call.column_keys.none /\ call._no_parameters

\* the keys the statement declares values for: those of
\* stmt_parameter_tuples, as keys of "parameters"
DeclaredKeys ==
    {_column_as_key(call, stmt_parameter_tuples(call)[i][1]) :
        i \in DOMAIN stmt_parameter_tuples(call)} \ {NoneKey}

\* the columns the scan visits: those of the target table
ScannedKeys == {<<"", call.table.columns[i].key>> : i \in DOMAIN call.table.columns}

\* the keys multi-table UPDATE handling records in check_columns: the
\* declared columns of the extra tables
ExtraTableKeys ==
    IF isupdate(call) /\ is_multitable(call)
    THEN UNION {{<<call._extra_froms[i].name, call._extra_froms[i].columns[j].key>> :
                    j \in {j \in DOMAIN call._extra_froms[i].columns :
                              in_normalized_params(stmt_parameter_tuples(call),
                                  call._extra_froms[i].columns[j])}} :
                i \in DOMAIN call._extra_froms}
    ELSE {}

\* the declared keys no scanned column and no check_columns entry matches
LeftUnconsumed == (DeclaredKeys \ ScannedKeys) \ ExtraTableKeys

\* the column scan ran to its end (no KeyError, TypeError, AttributeError)
ScanFinished ==
    /\ pc = "done"
    /\ ~FastPath
    /\ result.status \notin {"KeyError", "TypeError", "AttributeError"}

(* ------------------------------------------------------------------ *)
(* C1 .. C5                                                            *)
(* ------------------------------------------------------------------ *)

\* C1: no two bind parameters that one call of _get_crud_params names
\* (row-0 literals, later-row literals, prefetch parameters, qualified
\* names) carry the same name.
C1_BindNamesUnique ==
    Returned =>
        \A p \in GeneratedBinds, q \in GeneratedBinds :
            p # q => BindName(p) # BindName(q)

C3_FastPath ==
    (pc = "done" /\ FastPath) =>
        /\ result.status = "ok"
        /\ Len(result.single_params) = Len(call.table.columns)
        /\ \A i \in DOMAIN call.table.columns :
               /\ result.single_params[i].col = ColRef(call.table.columns[i])
               /\ result.single_params[i].value.kind = "bindparam"
               /\ result.single_params[i].value.name = call.table.columns[i].key
               /\ result.single_params[i].value.required
        /\ result.all_multi_params = <<>>
        /\ compiler.postfetch = <<>>
        /\ compiler.insert_prefetch = <<>>
        /\ compiler.update_prefetch = <<>>
        /\ compiler.implicit_returning = <<>>

\* C3: the fast path taken for a table whose first column is a primary
\* key with a Python-side default, on a dialect with implicit RETURNING
C3_Witness ==
    /\ pc = "done"
    /\ FastPath
    /\ call.table = TableCallablePk
    /\ call.dialect.implicit_returning
    /\ Len(result.single_params) = 3

\* C4: a batched INSERT of N rows that compiles returns N triple
\* sequences, the first the row-0 plan, all of the same length with the
\* same columns and column text in the same positions.
C4_BatchShape ==
    (Returned /\ call._has_multi_parameters) =>
        /\ Len(result.all_multi_params) = Len(call._multi_parameters)
        /\ result.all_multi_params[1] = result.single_params
        /\ \A i \in DOMAIN result.all_multi_params :
               /\ Len(result.all_multi_params[i]) = Len(result.single_params)
               /\ \A j \in DOMAIN result.single_params :
                      /\ result.all_multi_params[i][j].col = result.single_params[j].col
                      /\ result.all_multi_params[i][j].text = result.single_params[j].text

\* C4: a batch of MaxRows rows of two columns each has compiled
C4_Witness ==
    /\ Returned
    /\ call._has_multi_parameters
    /\ Len(call._multi_parameters) = MaxRows
    /\ Len(result.all_multi_params) = MaxRows
    /\ Len(result.single_params) = 2

\* a column without a client-side default that some rows of the batch
\* give a value and others do not
GivenInSomeRowsOnly(c) ==
    /\ c.default = NoDefault
    /\ \E r \in DOMAIN call._multi_parameters :
           row_has(call, call._multi_parameters[r], c.key)
    /\ \E r \in DOMAIN call._multi_parameters :
           ~row_has(call, call._multi_parameters[r], c.key)

\* C5: a batched INSERT in which a column without a client-side default is
\* given a value in some rows but not in others (row 0 included) fails
\* with a CompileError.
C5_BatchMixedRowsFail ==
    (/\ pc = "done"
     /\ call._has_multi_parameters
     /\ \E i \in DOMAIN call.table.columns :
            GivenInSomeRowsOnly(call.table.columns[i]))
        => result.status \in {"CompileError:explicit value required",
                              "CompileError:unconsumed"}

(* ------------------------------------------------------------------ *)
(* C6 .. C10                                                           *)
(* ------------------------------------------------------------------ *)

\* C6: after a call that returned, no column is in both
\* compiler.implicit_returning and compiler.postfetch.
C6_ReturningXorPostfetch ==
    Returned =>
        SeqToSet(compiler.implicit_returning) \cap SeqToSet(compiler.postfetch) = {}

\* C6: a call that put a column into each of the two collections
C6_Witness ==
    /\ Returned
    /\ compiler.implicit_returning # <<>>
    /\ compiler.postfetch # <<>>

\* C7: in every triple sequence a call returns, each column appears at
\* most once.
C7_ColumnOncePerSequence ==
    Returned =>
        \A p \in Positions, q \in Positions :
            (p[1] = q[1] /\ p[2] # q[2])
                => Rows[p[1]][p[2]].col # Rows[q[1]][q[2]].col

\* what _get_crud_params leaves in the compiler for the statement "call"
\* when the compiler has compiled nothing before
FreshOutcome == _get_crud_params(NewCompiler, call)

\* C8: the retrieval outputs visible after a call (postfetch,
\* insert_prefetch, update_prefetch, implicit_returning and
\* postfetch_lastrowid) are those the call's statement alone determines,
\* whatever the compiler compiled before.
C8_RetrievalStateFresh ==
    pc = "done" =>
        /\ compiler.postfetch = FreshOutcome.postfetch
        /\ compiler.insert_prefetch = FreshOutcome.insert_prefetch
        /\ compiler.update_prefetch = FreshOutcome.update_prefetch
        /\ compiler.implicit_returning = FreshOutcome.implicit_returning
        /\ compiler.postfetch_lastrowid = FreshOutcome.postfetch_lastrowid

\* a primary key column nothing can give a value: non-nullable, not the
\* table's autoincrement column, no default
BarePrimaryKey(c) ==
    /\ c.primary_key
    /\ ~c.nullable
    /\ ~is_autoincrement_column(call.table, c)
    /\ c.default = NoDefault

\* the statement declares a value for column c
Declares(c) == <<"", c.key>> \in DeclaredKeys

\* a returned sequence holds a triple for column c
HasTriple(c) == \E p \in Positions : Rows[p[1]][p[2]].col = ColRef(c)

Warned(c) == ColRef(c) \in SeqToSet(result.warnings)

\* C9 as stated: for every INSERT with a non-nullable, non-autoincrement
\* primary key column without a default and without a declared value, the
\* warning is emitted for the column, no triple is produced for it, and a
\* plan is returned.
C9_WarnsForEveryInsert ==
    (pc = "done" /\ call.isinsert) =>
        \A i \in DOMAIN call.table.columns :
            (BarePrimaryKey(call.table.columns[i])
             /\ ~call.table.columns[i].server_default
             /\ ~Declares(call.table.columns[i]))
                => /\ Returned
                   /\ Warned(call.table.columns[i])
                   /\ ~HasTriple(call.table.columns[i])

\* the column's key is one of compiler.column_keys
InColumnKeys(c) ==
    \E k \in DOMAIN call.column_keys.keys : call.column_keys.keys[k] = c.key

\* the triple of the DEFAULT VALUES conversion: (firstcol, DEFAULT)
IsDefaultKeyword(p) == Rows[p[1]][p[2]].value.kind = "keyword"

\* C9, amended: for an INSERT that goes through the column scan (not the
\* fast path, not INSERT from SELECT), a non-nullable, non-autoincrement
\* primary key column with neither default nor server default that is
\* neither declared nor named in column_keys gets the warning; the only
\* errors the call can raise are the unconsumed-names and the batch
\* CompileError; and a returned plan holds no triple for the column other
\* than the DEFAULT keyword of the DEFAULT VALUES conversion.
C9_WarnsInColumnScan ==
    (pc = "done" /\ call.isinsert /\ ~FastPath /\ call._select_names = <<>>) =>
        \A i \in DOMAIN call.table.columns :
            (BarePrimaryKey(call.table.columns[i])
             /\ ~call.table.columns[i].server_default
             /\ ~Declares(call.table.columns[i])
             /\ ~InColumnKeys(call.table.columns[i]))
                => /\ Warned(call.table.columns[i])
                   /\ \/ Returned
                      \/ /\ result.status = "CompileError:unconsumed"
                         /\ LeftUnconsumed # {}
                      \/ /\ result.status = "CompileError:explicit value required"
                         /\ call._has_multi_parameters
                   /\ Returned =>
                          \A p \in Positions :
                              Rows[p[1]][p[2]].col = ColRef(call.table.columns[i])
                                  => /\ IsDefaultKeyword(p)
                                     /\ i = 1
                                     /\ call.for_executemany
                                     /\ call.dialect.supports_default_metavalue

\* C9: the warning emitted, without RETURNING and with last-inserted-id
\* support, in a call that returned a plan with a triple for another
\* column
C9_Witness ==
    /\ Returned
    /\ call.isinsert /\ ~FastPath /\ call._select_names = <<>>
    /\ need_pks_of(call) /\ ~implicit_returning_of(call)
    /\ call.dialect.postfetch_lastrowid
    /\ BarePrimaryKey(call.table.columns[1])
    /\ ~call.table.columns[1].server_default
    /\ ~Declares(call.table.columns[1])
    /\ Warned(call.table.columns[1])
    /\ result.single_params # <<>>

\* the statement of scenario P7: a top-level single-row INSERT into
\* T(id, name, created_at) declaring only {name: 'a'}, not inline, without
\* RETURNING, executed once, on a dialect with implicit RETURNING
ScenarioP7(stmt) ==
    /\ stmt.isinsert
    /\ stmt.table = ScenarioT
    /\ stmt._dict_parameters = ValuesName
    /\ ~stmt._has_multi_parameters
    /\ stmt._select_names = <<>>
    /\ stmt.column_keys.none
    /\ stmt.toplevel /\ ~stmt._inline /\ ~stmt._returning
    /\ ~stmt.for_executemany
    /\ stmt.dialect.implicit_returning

\* return_defaults() asks for created_at: all columns, or naming it
AsksCreatedAt(stmt) ==
    /\ stmt._return_defaults
    /\ (stmt._return_defaults_columns = {}
        \/ CreatedAtRef \in stmt._return_defaults_columns)

\* the one triple of the plan: name, a non-required bind parameter "name"
NameTripleOnly(params) ==
    /\ Len(params) = 1
    /\ params[1].col = NameRef
    /\ params[1].value.kind = "bindparam"
    /\ params[1].value.name = "name"
    /\ params[1].value.value = "a"
    /\ ~params[1].value.required

\* C10 as stated: in scenario P7 the plan has the one triple for name,
\* implicit_returning = {id, created_at}, postfetch, insert_prefetch and
\* update_prefetch are empty and postfetch_lastrowid is not set.
C10_ScenarioP7 ==
    (pc = "done" /\ ScenarioP7(call)) =>
        /\ result.status = "ok"
        /\ NameTripleOnly(result.single_params)
        /\ SeqToSet(compiler.implicit_returning) = {IdRef, CreatedAtRef}
        /\ compiler.postfetch = <<>>
        /\ compiler.insert_prefetch = <<>>
        /\ compiler.update_prefetch = <<>>
        /\ ~compiler.postfetch_lastrowid

\* C10, amended: a call for scenario P7 returns the one triple for name,
\* leaves insert_prefetch and update_prefetch empty and does not change
\* postfetch_lastrowid; when the statement's return_defaults() asks for
\* created_at, implicit_returning is <<id, created_at>> and postfetch is
\* empty; otherwise implicit_returning is <<id>> and postfetch is
\* <<created_at>>.
C10_ScenarioP7ReturnDefaults ==
    [][(pc' = "done" /\ ScenarioP7(call')) =>
        /\ result'.status = "ok"
        /\ NameTripleOnly(result'.single_params)
        /\ result'.all_multi_params = <<>>
        /\ compiler'.insert_prefetch = <<>>
        /\ compiler'.update_prefetch = <<>>
        /\ compiler'.postfetch_lastrowid = compiler.postfetch_lastrowid
        /\ IF AsksCreatedAt(call')
           THEN /\ compiler'.implicit_returning = <<IdRef, CreatedAtRef>>
                /\ compiler'.postfetch = <<>>
           ELSE /\ compiler'.implicit_returning = <<IdRef>>
                /\ compiler'.postfetch = <<CreatedAtRef>>]_vars

\* C10: scenario P7 compiled with return_defaults(): both id and
\* created_at are in implicit_returning
C10_Witness ==
    /\ pc = "done"
    /\ ScenarioP7(call)
    /\ AsksCreatedAt(call)
    /\ compiler.implicit_returning = <<IdRef, CreatedAtRef>>
    /\ ~compiler.postfetch_lastrowid

(* ------------------------------------------------------------------ *)
(* C11 .. C15                                                          *)
(* ------------------------------------------------------------------ *)

\* the statement of scenario P8: a single-row INSERT into
\* T(id, name, created_at) declaring only {name: 'a'}, on a dialect
\* without implicit RETURNING and without cursor.lastrowid
ScenarioP8(stmt) ==
    /\ stmt.isinsert
    /\ stmt.table = ScenarioT
    /\ stmt._dict_parameters = ValuesName
    /\ ~stmt._has_multi_parameters
    /\ stmt._select_names = <<>>
    /\ stmt.column_keys.none
    /\ ~stmt.dialect.implicit_returning
    /\ ~stmt.dialect.postfetch_lastrowid

\* the column id of T
IdColumn == ScenarioT.columns[1]

\* the returned plan holds exactly one triple for column c, a prefetch
\* bind parameter, and c is recorded in insert_prefetch
PrefetchedOnInsert(c) ==
    /\ \E p \in Positions :
           /\ Rows[p[1]][p[2]].col = ColRef(c)
           /\ Rows[p[1]][p[2]].value = prefetch_param(c, c.key)
           /\ \A q \in Positions : Rows[q[1]][q[2]].col = ColRef(c) => q = p
    /\ ColRef(c) \in SeqToSet(compiler.insert_prefetch)

\* C11 as stated: in scenario P8 the warning is emitted for id, no triple
\* is produced for id, and a plan is returned.
C11_ScenarioP8 ==
    (pc = "done" /\ ScenarioP8(call)) =>
        /\ Returned
        /\ Warned(IdColumn)
        /\ ~HasTriple(IdColumn)

\* C11, amended: in scenario P8 a plan is returned and no warning is
\* emitted for id, which is the table's autoincrement column; id gets no
\* triple, except that when generated keys are needed and the dialect
\* pre-executes autoincrement (preexecute_autoincrement_sequences) it gets
\* a prefetch bind parameter and is recorded in insert_prefetch.
C11_ScenarioP8Autoincrement ==
    (pc = "done" /\ ScenarioP8(call)) =>
        /\ Returned
        /\ result.warnings = <<>>
        /\ IF need_pks_of(call) /\ call.dialect.preexecute_autoincrement_sequences
           THEN PrefetchedOnInsert(IdColumn)
           ELSE /\ ~HasTriple(IdColumn)
                /\ IdRef \notin SeqToSet(compiler.insert_prefetch)

\* C11: scenario P8 compiled where generated keys are needed and the
\* dialect does not pre-execute autoincrement: a plan without id and
\* without a warning
C11_Witness ==
    /\ pc = "done"
    /\ ScenarioP8(call)
    /\ need_pks_of(call)
    /\ ~call.dialect.preexecute_autoincrement_sequences
    /\ Returned
    /\ ~HasTriple(IdColumn)
    /\ result.warnings = <<>>

\* what the call's statement alone yields when the set affected_tables
\* iterates in the given order
OutcomeInOrder(order) ==
    _get_crud_params(NewCompiler, [call EXCEPT !.hash_order = order])

\* C12: two compiles of the same statement, tables and dialect produce
\* the same result (triples in the same order, rendered values, bind
\* parameter names, retrieval collections), also for a multi-table UPDATE
\* whose default triples come from iterating the set of affected tables.
C12_Determinism ==
    pc = "done" => OutcomeInOrder("forward") = OutcomeInOrder("reverse")

\* ReturningPolicy as the specification gives it, for the arguments of
\* the latest call
needGeneratedKeys ==
    /\ call.toplevel /\ call.isinsert /\ ~call._inline
    /\ (call.for_executemany =>
            (call.dialect.insert_executemany_returning /\ call._return_defaults))
    /\ ~call._returning
    /\ ~call._has_multi_parameters

implicitReturningAvailable ==
    needGeneratedKeys /\ call.dialect.implicit_returning /\ call.table.implicit_returning

wantsPostWriteDefaults ==
    IF call.isinsert
    THEN implicitReturningAvailable /\ call._return_defaults
    ELSE call.dialect.implicit_returning /\ call.table.implicit_returning
         /\ call._return_defaults

postWriteFilter ==
    IF ~wantsPostWriteDefaults THEN {}
    ELSE IF call._return_defaults_columns # {} THEN call._return_defaults_columns
    ELSE {ColRef(call.table.columns[i]) : i \in DOMAIN call.table.columns}

\* C13: the modifiers _get_returning_modifiers computes for a call are
\* those of the ReturningPolicy formulas: need_pks, implicit_returning and
\* the post-write filter (empty unless post-write defaults are wanted, else
\* the named return-defaults columns, or all table columns when none are
\* named).
C13_ReturningPolicy ==
    pc = "done" =>
        /\ _get_returning_modifiers(call).need_pks = needGeneratedKeys
        /\ _get_returning_modifiers(call).implicit_returning = implicitReturningAvailable
        /\ _get_returning_modifiers(call).implicit_return_defaults = postWriteFilter

\* C13: a batched INSERT that but for its several rows needs generated
\* keys: need_pks is False and the call put nothing in implicit_returning
C13_Witness ==
    /\ pc = "done"
    /\ call.isinsert /\ call.toplevel /\ ~call._inline /\ ~call._returning
    /\ ~call.for_executemany
    /\ call._has_multi_parameters
    /\ call.dialect.implicit_returning /\ call.table.implicit_returning
    /\ ~_get_returning_modifiers(call).need_pks
    /\ result.status = "ok"
    /\ compiler.implicit_returning = <<>>

\* branch B1 applied to column c in the latest call, which returned a
\* plan: a single-row INSERT through the column scan in need of generated
\* keys, c a primary key column neither declared nor named in column_keys
BranchB1(c) ==
    /\ Returned
    /\ call.isinsert /\ ~FastPath /\ call._select_names = <<>>
    /\ _get_returning_modifiers(call).need_pks
    /\ c.primary_key
    /\ ~Declares(c)
    /\ ~InColumnKeys(c)

ReturningUsable == _get_returning_modifiers(call).implicit_returning

\* the returned plan holds exactly one triple for column c, a rendered SQL
\* expression
RenderedInline(c) ==
    \E p \in Positions :
        /\ Rows[p[1]][p[2]].col = ColRef(c)
        /\ Rows[p[1]][p[2]].value.kind = "sql"
        /\ \A q \in Positions : Rows[q[1]][q[2]].col = ColRef(c) => q = p

InBucket(c, bucket) == ColRef(c) \in SeqToSet(bucket)

\* the dialect supports sequences and the sequence is to be invoked
InvokesSequence(c) ==
    /\ c.default.kind = "Sequence"
    /\ call.dialect.supports_sequences
    /\ (~c.default.optional \/ ~call.dialect.sequences_optional)

SetsLastrowid == FreshOutcome.postfetch_lastrowid

\* the first branch of the code: the default is pre-executed
PreExecuted(c) ==
    \/ c.default.kind \in {"ClauseElement", "Callable"}
    \/ InvokesSequence(c)
    \/ /\ is_autoincrement_column(call.table, c)
       /\ ~call.dialect.postfetch_lastrowid
       /\ \/ c.default.kind = "Sequence" /\ call.dialect.supports_sequences
          \/ c.default.kind = "None" /\ call.dialect.preexecute_autoincrement_sequences

UnconfiguredOnUpdate(c) ==
    /\ Returned
    /\ isupdate(call) /\ ~FastPath
    /\ ~Declares(c)
    /\ ~InColumnKeys(c)
    /\ c.onupdate = NoDefault
    /\ ~c.server_onupdate

\* no triple for c and c in none of the collections
Skipped(c) ==
    /\ ~HasTriple(c)
    /\ ~InBucket(c, compiler.implicit_returning)
    /\ ~InBucket(c, compiler.postfetch)
    /\ ~InBucket(c, compiler.update_prefetch)
    /\ ~InBucket(c, compiler.insert_prefetch)

DeclaresOf(t, c) == <<t.name, c.key>> \in DeclaredKeys

\* the statement declares a value for some column of the extra table t
Written(t) == \E j \in DOMAIN t.columns : DeclaresOf(t, t.columns[j])

\* the returned plan holds exactly one triple for column c, a bind
\* parameter that crud.py created for a pre-executed default, and c is
\* recorded in update_prefetch
PrefetchedOnUpdate(c) ==
    /\ \E p \in Positions :
           /\ Rows[p[1]][p[2]].col = ColRef(c)
           /\ Rows[p[1]][p[2]].value.kind = "bindparam"
           /\ Rows[p[1]][p[2]].value.origin = "crud"
           /\ Rows[p[1]][p[2]].value.value = PyNone.v
           /\ \A q \in Positions : Rows[q[1]][q[2]].col = ColRef(c) => q = p
    /\ InBucket(c, compiler.update_prefetch)

\* C17: after a multi-table UPDATE, an extra table none of whose columns
\* has a declared value has no triple and no column in postfetch,
\* update_prefetch or implicit_returning, whatever its columns' on-update
\* configuration; in an extra table with a declared column, the on-update
\* defaults of the other columns fire: a SQL expression is rendered
\* inline and the column is in postfetch, a Python-side default is a
\* prefetch bind parameter and the column is in update_prefetch, a
\* server-side on-update puts the column in postfetch.
C17_UnwrittenTablesUntouched ==
    (pc = "done" /\ isupdate(call) /\ is_multitable(call)) =>
        \A i \in DOMAIN call._extra_froms :
            LET t == call._extra_froms[i]
            IN  \A j \in DOMAIN t.columns :
                    LET c == t.columns[j]
                    IN  IF ~Written(t)
                        THEN Skipped(c)
                        ELSE (Returned /\ ~DeclaresOf(t, c)) =>
                                 CASE c.onupdate.kind = "ClauseElement" ->
                                          RenderedInline(c) /\ InBucket(c, compiler.postfetch)
                                   [] c.onupdate.kind = "Callable" ->
                                          PrefetchedOnUpdate(c)
                                   [] OTHER ->
                                          /\ ~HasTriple(c)
                                          /\ InBucket(c, compiler.postfetch) = c.server_onupdate

\* C17: a multi-table UPDATE that writes t2 and not t3: the Python-side
\* on-update default of t3.z did not fire, the on-update default of t2.y
\* did
C17_Witness ==
    /\ Returned /\ isupdate(call) /\ is_multitable(call)
    /\ Len(call._extra_froms) = 2
    /\ Written(call._extra_froms[1])
    /\ ~Written(call._extra_froms[2])
    /\ call._extra_froms[2].columns[2].onupdate.kind = "Callable"
    /\ Skipped(call._extra_froms[2].columns[2])
    /\ call._extra_froms[1].columns[2].onupdate.kind = "Callable"
    /\ PrefetchedOnUpdate(call._extra_froms[1].columns[2])

\* column c is left to its default in the latest call, an INSERT from
\* SELECT with include_defaults that returned a plan: c has a default and
\* is not one of the names of from_select()
DefaultInSelect(c) ==
    /\ Returned
    /\ call.isinsert
    /\ call._select_names # <<>>
    /\ call.include_insert_from_select_defaults
    /\ c.key \notin SeqToSet(call._select_names)
    /\ c.default.kind # "None"

\* the position of the one triple of column c
TripleOf(c) == CHOOSE p \in Positions : Rows[p[1]][p[2]].col = ColRef(c)

\* the triple of c is one of those appended after the triples of the
\* names of from_select(): an extra output expression of the SELECT
ExtraSelectOutput(c) ==
    /\ HasTriple(c)
    /\ TripleOf(c)[2] > Len(call._select_names)

\* C18 as stated: in an INSERT from SELECT with defaults, a column the
\* SELECT does not name whose default is Python-side gets no triple, no
\* extra SELECT output and no insert_prefetch entry.
C18_ProceduralDefaultOmitted ==
    \A i \in DOMAIN call.table.columns :
        LET c == call.table.columns[i]
        IN  (DefaultInSelect(c) /\ c.default.kind = "Callable") =>
                /\ ~HasTriple(c)
                /\ ~InBucket(c, compiler.insert_prefetch)

\* C18, amended: such a column gets a prefetch bind parameter as an extra
\* SELECT output and an insert_prefetch entry; a SQL-expression default
\* and a Sequence the dialect invokes are rendered inline as extra SELECT
\* outputs, without insert_prefetch entry; a Sequence the dialect does
\* not invoke is omitted.
C18_ProceduralDefaultPrefetched ==
    \A i \in DOMAIN call.table.columns :
        LET c == call.table.columns[i]
        IN  DefaultInSelect(c) =>
                CASE c.default.kind = "Callable" ->
                         PrefetchedOnInsert(c) /\ ExtraSelectOutput(c)
                  [] c.default.kind = "ClauseElement" \/ InvokesSequence(c) ->
                         /\ RenderedInline(c) /\ ExtraSelectOutput(c)
                         /\ ~InBucket(c, compiler.insert_prefetch)
                  [] OTHER ->
                         /\ ~HasTriple(c)
                         /\ ~InBucket(c, compiler.insert_prefetch)

\* C18: INSERT INTO t (a) SELECT ... with defaults, the column b having a
\* Python-side default: b is in the plan after a and in insert_prefetch
C18_Witness ==
    /\ DefaultInSelect(call.table.columns[3])
    /\ call._select_names = <<"a">>
    /\ call.table.columns[3].default.kind = "Callable"
    /\ PrefetchedOnInsert(call.table.columns[3])
    /\ ExtraSelectOutput(call.table.columns[3])

\* C19: after a call for an INSERT (one row, batched, or from SELECT)
\* update_prefetch is empty; after a call for an UPDATE (of one table or
\* multi-table) insert_prefetch is empty.
C19_PrefetchMatchesStatementKind ==
    pc = "done" =>
        /\ call.isinsert => compiler.update_prefetch = <<>>
        /\ isupdate(call) => compiler.insert_prefetch = <<>>

\* C19: a multi-table UPDATE that pre-executes Python-side on-update
\* defaults of an extra table and of the target table
C19_Witness ==
    /\ Returned
    /\ isupdate(call) /\ is_multitable(call)
    /\ Len(compiler.update_prefetch) >= 2
    /\ compiler.update_prefetch[1].table # call.table.name
    /\ compiler.update_prefetch[Len(compiler.update_prefetch)].table = call.table.name
    /\ compiler.insert_prefetch = <<>>

\* C20: a call sets postfetch_lastrowid only when generated keys are
\* needed, the dialect has cursor.lastrowid and RETURNING is not usable;
\* so also for a primary key column of an INSERT that is given a SQL
\* expression.
C20_LastrowidOnlyWhenEligible ==
    (pc = "done" /\ SetsLastrowid) =>
        /\ _get_returning_modifiers(call).postfetch_lastrowid
        /\ ~ReturningUsable

(* ------------------------------------------------------------------ *)
(* C21 .. C22                                                          *)
(* ------------------------------------------------------------------ *)

\* C21: after a call for an INSERT no primary key column of the table is
\* in postfetch: not with a declared SQL expression, not with an inline
\* Sequence or SQL-expression default, not with a server default only,
\* whether or not generated keys are needed.
C21_NoPrimaryKeyInPostfetch ==
    (pc = "done" /\ call.isinsert) =>
        \A i \in DOMAIN call.table.columns :
            call.table.columns[i].primary_key
                => ~InBucket(call.table.columns[i], compiler.postfetch)

\* C21: an INSERT that needs no generated keys, its primary key column
\* rendered inline from a SQL-expression default and not qualifying for
\* RETURNING, while another column is in postfetch
C21_Witness ==
    /\ Returned
    /\ call.isinsert
    /\ ~_get_returning_modifiers(call).need_pks
    /\ call.table.columns[1].primary_key
    /\ call.table.columns[1].default.kind = "ClauseElement"
    /\ ~Declares(call.table.columns[1])
    /\ RenderedInline(call.table.columns[1])
    /\ ~InBucket(call.table.columns[1], compiler.implicit_returning)
    /\ ~InBucket(call.table.columns[1], compiler.postfetch)
    /\ compiler.postfetch # <<>>

\* the entries of both prefetch collections after the call
PrefetchEntries == compiler.insert_prefetch \o compiler.update_prefetch

\* the row (triple sequence) an entry belongs to: the first for a column
\* itself, row i + 1 for the wrapper of the later row of index i
RowOf(e) == IF e.index = -1 THEN 1 ELSE e.index + 2

\* the column an entry stands for: the column itself, or the one a
\* _multiparam_column wraps
WrappedColumn(e) == [e EXCEPT !.key = e.original, !.index = -1]

\* the triple at position p holds a bind parameter that crud.py created
\* for a pre-executed default: value None, not required
IsPrefetchTriple(p) ==
    /\ Rows[p[1]][p[2]].value.kind = "bindparam"
    /\ Rows[p[1]][p[2]].value.origin = "crud"
    /\ Rows[p[1]][p[2]].value.value = PyNone.v
    /\ ~Rows[p[1]][p[2]].value.required

\* the triple at p is the one created together with the prefetch entry e:
\* in e's row, for e's column, its bind parameter named after e
PairedWith(p, e) ==
    /\ p[1] = RowOf(e)
    /\ Rows[p[1]][p[2]].col = WrappedColumn(e)
    /\ IsPrefetchTriple(p)
    /\ Rows[p[1]][p[2]].value.name = _col_bind_name(call, e)

\* the key of the wrapper of column c in the later row i (row 0 first)
WrapperKey(c, i) == c.key \o "_m" \o ToString(i)

\* the rows of the batch
BatchSize == Len(call._multi_parameters)

\* C22: in a returned plan every entry of insert_prefetch and
\* update_prefetch is paired with exactly one triple, that of its column
\* (in its row) holding the bind parameter created for it, and every such
\* triple with exactly one entry; in a batch of N rows a column with a
\* Python-side default that no row gives a value has exactly N entries:
\* the column itself and, for each later row i, a wrapper keyed
\* "<key>_m<i>".
C22_PrefetchEntriesPairedWithTriples ==
    Returned =>
        /\ \A k \in DOMAIN PrefetchEntries :
               Cardinality({p \in Positions : PairedWith(p, PrefetchEntries[k])}) = 1
        /\ \A p \in {q \in Positions : IsPrefetchTriple(q)} :
               Cardinality({k \in DOMAIN PrefetchEntries :
                                PairedWith(p, PrefetchEntries[k])}) = 1
        /\ call._has_multi_parameters =>
               \A j \in DOMAIN call.table.columns :
                   LET c == call.table.columns[j]
                       mine == {k \in DOMAIN compiler.insert_prefetch :
                                   WrappedColumn(compiler.insert_prefetch[k]) = ColRef(c)}
                   IN  (/\ c.default.kind = "Callable"
                        /\ \A r \in DOMAIN call._multi_parameters :
                               ~row_has(call, call._multi_parameters[r], c.key))
                       => /\ Cardinality(mine) = BatchSize
                          /\ {compiler.insert_prefetch[k].key : k \in mine} =
                                 {c.key} \cup {WrapperKey(c, i) : i \in 1..(BatchSize - 1)}

\* C22: a batch of at least two rows, none giving the first column, which
\* has a Python-side default: insert_prefetch holds the column and its
\* wrapper for the last row
C22_Witness ==
    /\ Returned
    /\ call._has_multi_parameters
    /\ BatchSize >= 2
    /\ call.table.columns[1].default.kind = "Callable"
    /\ \A r \in DOMAIN call._multi_parameters :
           ~row_has(call, call._multi_parameters[r], call.table.columns[1].key)
    /\ \E k \in DOMAIN compiler.insert_prefetch :
           /\ compiler.insert_prefetch[k].key =
                  WrapperKey(call.table.columns[1], BatchSize - 1)
           /\ compiler.insert_prefetch[k].original = call.table.columns[1].key
    /\ InBucket(call.table.columns[1], compiler.insert_prefetch)

====
